---------------------------- MODULE Spec2Model ----------------------------
(***************************************************************************)
(* Chess rules engine (topics/06-interview-prep/case-studies/chess).       *)
(*                                                                         *)
(* The model follows implementation.cpp: a Board of owning slots, Piece    *)
(* objects with identity (a Move keeps raw Piece pointers), and GameState  *)
(* with makeMove / undoMove / getFEN.  Pawn is the only piece class the    *)
(* source spells out; the other five kinds and the back-rank set-up are    *)
(* elided in the source ("Similar implementations for other pieces...")    *)
(* and are modelled from the specification.                                *)
(***************************************************************************)
EXTENDS Integers, Sequences, FiniteSets, TLC

(***************************************************************************)
(* Bounds of the model.                                                    *)
(***************************************************************************)
\* accepted moves over the whole run (positionHistory counts them all)
MaxMoves == 3

(***************************************************************************)
(* Enums and Position.                                                     *)
(***************************************************************************)
WHITE == "WHITE"
BLACK == "BLACK"
Color == {WHITE, BLACK}

PAWN == "PAWN"
ROOK == "ROOK"
KNIGHT == "KNIGHT"
BISHOP == "BISHOP"
QUEEN == "QUEEN"
KING == "KING"
PieceType == {PAWN, ROOK, KNIGHT, BISHOP, QUEEN, KING}

\* Board dimension: squares.resize(8, ...), row < 8 && col < 8
BoardSize == 8

\* Variant of the player switch: both branches give White.
SwitchPlayerStuck(c) == IF c = WHITE THEN WHITE ELSE WHITE

\* (currentPlayer == Color::WHITE) ? Color::BLACK : Color::WHITE
SwitchPlayer(c) == IF c = WHITE THEN BLACK ELSE WHITE

\* A Position is <<row, col>>; row 0 is rank 8, col 0 is file a.
Row(pos) == pos[1]
Col(pos) == pos[2]

IsValid(pos) ==
    Row(pos) >= 0 /\ Row(pos) < BoardSize /\ Col(pos) >= 0 /\ Col(pos) < BoardSize

Squares == (0 .. BoardSize - 1) \X (0 .. BoardSize - 1)

\* char arithmetic of std::string: a value appended to a string is one byte
ToChar(n) == n % 256

\* A variant of getNotation, a slip the code could have made: the row index
\* is written as the rank digit.
GetNotationRowAsRank(pos) == << ToChar(97 + Col(pos)), ToChar(48 + Row(pos)) >>

\* Position::getNotation: 'a' + col, then '0' + (8 - row)
GetNotation(pos) == << ToChar(97 + Col(pos)), ToChar(48 + (8 - Row(pos))) >>

\* Position::Position(const string&): invalid_argument unless the length is
\* 2; otherwise col = notation[0] - 'a' and row = 8 - (notation[1] - '0'),
\* whatever the two characters are
PositionFromNotation(notation) ==
    IF Len(notation) # 2
    THEN [ thrown |-> TRUE, pos |-> << 0, 0 >> ]
    ELSE [ thrown |-> FALSE,
           pos |-> << BoardSize - (notation[2] - 48), notation[1] - 97 >> ]

(***************************************************************************)
(* Board: an 8x8 grid of owning slots.  A slot holds a piece id, or        *)
(* NoPiece for an empty unique_ptr.                                        *)
(***************************************************************************)
NoPiece == 0

\* A variant of getPiece, a slip the code could have made: an off-board
\* position is wrapped onto the board instead of answered with nullptr.
GetPieceWrapped(squares, pos) ==
    squares[<< Row(pos) % BoardSize, Col(pos) % BoardSize >>]

\* Board::getPiece
GetPiece(squares, pos) == IF ~IsValid(pos) THEN NoPiece ELSE squares[pos]

\* The slot assignment of setPiece; the caller accounts for the object the
\* slot owned before.
SetPiece(squares, pos, piece) ==
    IF ~IsValid(pos) THEN squares ELSE [squares EXCEPT ![pos] = piece]

\* A variant of movePiece, a slip the code could have made: the pointer is
\* copied and the source slot keeps it.
MovePieceKeepsSource(squares, from, to) ==
    IF ~IsValid(from) \/ ~IsValid(to) THEN squares
    ELSE [squares EXCEPT ![to] = squares[from]]

\* squares[to] = move(squares[from]): the source slot is left empty.  A
\* self-move leaves the slot as it was.
MovePiece(squares, from, to) ==
    IF ~IsValid(from) \/ ~IsValid(to) THEN squares
    ELSE IF from = to THEN squares
    ELSE [squares EXCEPT ![to] = squares[from], ![from] = NoPiece]

(***************************************************************************)
(* Pieces.  pieces[id] is the object's memory: color, type, position,      *)
(* hasMoved.                                                               *)
(***************************************************************************)
Direction(color) == IF color = WHITE THEN -1 ELSE 1

SeqToSet(s) == { s[i] : i \in DOMAIN s }

\* A variant of the pawn's generator, a slip the code could have made: the
\* double step from the starting position is left out.
PawnSingleStepOnly(squares, pieces, id) ==
    LET me == pieces[id]
        forward == << Row(me.position) + Direction(me.color), Col(me.position) >>
    IN  IF IsValid(forward) /\ GetPiece(squares, forward) = NoPiece
        THEN << forward >> ELSE << >>

\* Pawn::getValidMoves: the moves in the order the code pushes them.  The
\* pawn starts from its own `position` member.
PawnGetValidMoves(squares, pieces, id) ==
    LET me == pieces[id]
        position == me.position
        direction == Direction(me.color)
        forward == << Row(position) + direction, Col(position) >>
        doubleForward == << Row(position) + 2 * direction, Col(position) >>
        fwd == IF IsValid(forward) /\ GetPiece(squares, forward) = NoPiece
               THEN << forward >> \o
                    (IF ~me.hasMoved /\ GetPiece(squares, doubleForward) = NoPiece
                     THEN << doubleForward >> ELSE << >>)
               ELSE << >>
        capL == << Row(position) + direction, Col(position) - 1 >>
        capR == << Row(position) + direction, Col(position) + 1 >>
        Cap(capture) ==
            IF IsValid(capture)
               /\ GetPiece(squares, capture) # NoPiece
               /\ pieces[GetPiece(squares, capture)].color # me.color
            THEN << capture >> ELSE << >>
    IN  fwd \o Cap(capL) \o Cap(capR)

\* Destinations open to a piece of `color` on `pos`: on the board and not
\* held by a piece of its own colour.
Landable(squares, pieces, color, pos) ==
    /\ IsValid(pos)
    /\ \/ squares[pos] = NoPiece
       \/ pieces[squares[pos]].color # color

KnightOffsets ==
    { <<-2, -1>>, <<-2, 1>>, <<-1, -2>>, <<-1, 2>>,
      <<1, -2>>, <<1, 2>>, <<2, -1>>, <<2, 1>> }

KingOffsets ==
    { <<-1, -1>>, <<-1, 0>>, <<-1, 1>>, <<0, -1>>,
      <<0, 1>>, <<1, -1>>, <<1, 0>>, <<1, 1>> }

RookDirs == { <<-1, 0>>, <<1, 0>>, <<0, -1>>, <<0, 1>> }
BishopDirs == { <<-1, -1>>, <<-1, 1>>, <<1, -1>>, <<1, 1>> }

Plus(pos, d) == << Row(pos) + d[1], Col(pos) + d[2] >>

\* A ray from pos (exclusive) in direction d: stops at the first occupied
\* square, which is a destination only if it holds an enemy piece.
RECURSIVE Ray(_, _, _, _, _)
Ray(squares, pieces, color, pos, d) ==
    LET next == Plus(pos, d)
    IN  IF ~IsValid(next) THEN {}
        ELSE IF squares[next] = NoPiece
             THEN {next} \cup Ray(squares, pieces, color, next, d)
        ELSE IF pieces[squares[next]].color # color THEN {next}
        ELSE {}

StepMoves(squares, pieces, id, offsets) ==
    { p \in { Plus(pieces[id].position, o) : o \in offsets } :
        Landable(squares, pieces, pieces[id].color, p) }

SlideMoves(squares, pieces, id, dirs) ==
    UNION { Ray(squares, pieces, pieces[id].color, pieces[id].position, d) :
            d \in dirs }

\* Piece::getValidMoves as a set of destinations, by kind.
GetValidMoves(squares, pieces, id) ==
    LET type == pieces[id].type
    IN  IF type = PAWN THEN SeqToSet(PawnGetValidMoves(squares, pieces, id))
        ELSE IF type = KNIGHT THEN StepMoves(squares, pieces, id, KnightOffsets)
        ELSE IF type = KING THEN StepMoves(squares, pieces, id, KingOffsets)
        ELSE IF type = ROOK THEN SlideMoves(squares, pieces, id, RookDirs)
        ELSE IF type = BISHOP THEN SlideMoves(squares, pieces, id, BishopDirs)
        ELSE SlideMoves(squares, pieces, id, RookDirs \cup BishopDirs)

\* Piece::canMoveTo: find(validMoves, pos) != end
CanMoveTo(squares, pieces, id, pos) == pos \in GetValidMoves(squares, pieces, id)

(***************************************************************************)
(* GameState.  S is the record of the object's members plus the heap facts *)
(* the raw pointers of Move depend on:                                     *)
(*   squares, pieces, freed (ids of destroyed Piece objects), currentPlayer,*)
(*   moveHistory, whiteKingMoved, blackKingMoved, whiteRookMoved,          *)
(*   blackRookMoved, enPassantTarget, halfMoveClock, fullMoveNumber,       *)
(*   positionHistory, aborted (the process died on undefined behaviour).   *)
(***************************************************************************)
NumPieces == 4 * BoardSize
PieceIds == 1 .. NumPieces

\* Back rank, files a..h (not in the source's initializeBoard).
BackRank == << ROOK, KNIGHT, BISHOP, QUEEN, KING, BISHOP, KNIGHT, ROOK >>

\* ids 1..8 black back rank (row 0), 9..16 black pawns (row 1),
\* 17..24 white pawns (row 6), 25..32 white back rank (row 7)
InitRow(id) ==
    IF id <= 8 THEN 0 ELSE IF id <= 16 THEN 1 ELSE IF id <= 24 THEN 6 ELSE 7

InitPosition(id) == << InitRow(id), (id - 1) % 8 >>

\* Piece::Piece: hasMoved(false), position as constructed
InitPieces ==
    [ id \in PieceIds |->
        [ color |-> IF id <= 16 THEN BLACK ELSE WHITE,
          type |-> IF InitRow(id) \in {1, 6} THEN PAWN
                   ELSE BackRank[Col(InitPosition(id)) + 1],
          position |-> InitPosition(id),
          hasMoved |-> FALSE ] ]

\* GameState::initializeBoard
InitSquares ==
    [ pos \in Squares |->
        IF \E id \in PieceIds : InitPosition(id) = pos
        THEN CHOOSE id \in PieceIds : InitPosition(id) = pos
        ELSE NoPiece ]

(***************************************************************************)
(* getFEN, as the sequence of character codes of the string.               *)
(***************************************************************************)
\* std::to_string of a non-negative int
RECURSIVE to_string(_)
to_string(n) ==
    IF n < 10 THEN << 48 + n >> ELSE to_string(n \div 10) \o << 48 + (n % 10) >>

\* GameState::getPieceChar: lower-case letter by type, toupper for White
GetPieceChar(piece) ==
    LET c == CASE piece.type = PAWN -> 112
               [] piece.type = ROOK -> 114
               [] piece.type = KNIGHT -> 110
               [] piece.type = BISHOP -> 98
               [] piece.type = QUEEN -> 113
               [] piece.type = KING -> 107
    IN  IF piece.color = WHITE THEN c - 32 ELSE c

\* the inner loop of getFEN over the columns of one row
RECURSIVE RowFEN(_, _, _, _, _)
RowFEN(squares, pieces, row, col, emptyCount) ==
    IF col = BoardSize
    THEN IF emptyCount > 0 THEN to_string(emptyCount) ELSE << >>
    ELSE LET piece == GetPiece(squares, << row, col >>)
         IN  IF piece # NoPiece
             THEN (IF emptyCount > 0 THEN to_string(emptyCount) ELSE << >>)
                  \o << GetPieceChar(pieces[piece]) >>
                  \o RowFEN(squares, pieces, row, col + 1, 0)
             ELSE RowFEN(squares, pieces, row, col + 1, emptyCount + 1)

\* the outer loop of getFEN: rows 0..7, '/' after every row but the last
RECURSIVE BoardFEN(_, _, _)
BoardFEN(squares, pieces, row) ==
    IF row = BoardSize THEN << >>
    ELSE RowFEN(squares, pieces, row, 0, 0)
         \o (IF row < BoardSize - 1 THEN << 47 >> ELSE << >>)
         \o BoardFEN(squares, pieces, row + 1)

\* GameState::getCastlingString: K Q k q, or "-"
GetCastlingString(S) ==
    LET w == IF ~S.whiteKingMoved
             THEN (IF ~S.whiteRookMoved[0] THEN << 75 >> ELSE << >>)
                  \o (IF ~S.whiteRookMoved[1] THEN << 81 >> ELSE << >>)
             ELSE << >>
        b == IF ~S.blackKingMoved
             THEN (IF ~S.blackRookMoved[0] THEN << 107 >> ELSE << >>)
                  \o (IF ~S.blackRookMoved[1] THEN << 113 >> ELSE << >>)
             ELSE << >>
    IN  IF w \o b = << >> THEN << 45 >> ELSE w \o b

\* GameState::getFEN
GetFEN(S) ==
    BoardFEN(S.squares, S.pieces, 0)
    \o << 32 >> \o << IF S.currentPlayer = WHITE THEN 119 ELSE 98 >>
    \o << 32 >> \o GetCastlingString(S)
    \o << 32 >> \o GetNotation(S.enPassantTarget)
    \o << 32 >> \o to_string(S.halfMoveClock)
    \o << 32 >> \o to_string(S.fullMoveNumber)

(***************************************************************************)
(* Object lifetime.  A slot that is overwritten deletes the Piece it       *)
(* owned; a Move keeps its raw pointer.  What a destroyed object's memory  *)
(* holds afterwards is not defined: later reads through a stale pointer    *)
(* may see any colour and flag, or the process may die.                    *)
(***************************************************************************)
Abort(S) == [S EXCEPT !.aborted = TRUE]

Garbage(rec) ==
    { [rec EXCEPT !.color = c, !.hasMoved = h] : c \in Color, h \in BOOLEAN }

\* ~unique_ptr on the object `id`: the states after the delete
Delete(S, id) ==
    IF id = NoPiece THEN {S}
    ELSE IF id \in S.freed THEN {Abort(S), S}
    ELSE { [S EXCEPT !.freed = @ \cup {id}, !.pieces[id] = g] :
           g \in Garbage(S.pieces[id]) }

\* some slot of the board holds a pointer to a destroyed object
DanglingOnBoard(S) == \E pos \in Squares : S.squares[pos] \in S.freed

(***************************************************************************)
(* Move.                                                                   *)
(***************************************************************************)
\* Move::Move(from, to, piece)
NewMove(from, to, piece) ==
    [ from |-> from, to |-> to, piece |-> piece, capturedPiece |-> NoPiece,
      isCastling |-> FALSE, isEnPassant |-> FALSE, isPromotion |-> FALSE ]

\* GameState::handleCastling, handleEnPassant, handlePromotion: empty bodies
HandleCastling(move) == move
HandleEnPassant(move) == move
HandlePromotion(move) == move

Back(seq) == seq[Len(seq)]
PopBack(seq) == SubSeq(seq, 1, Len(seq) - 1)

(***************************************************************************)
(* positionHistory: unordered_map<string, int>; operator[] creates a       *)
(* missing key with 0.                                                     *)
(***************************************************************************)
Count(ph, key) == IF key \in DOMAIN ph THEN ph[key] ELSE 0

Increment(ph, key) ==
    [ k \in DOMAIN ph \cup {key} |-> IF k = key THEN Count(ph, key) + 1 ELSE ph[k] ]

RECURSIVE SumOver(_, _)
SumOver(ph, keys) ==
    IF keys = {} THEN 0
    ELSE LET k == CHOOSE x \in keys : TRUE
         IN  ph[k] + SumOver(ph, keys \ {k})

\* every accepted move adds one to exactly one count
TotalCount(ph) == SumOver(ph, DOMAIN ph)

(***************************************************************************)
(* GameState operations, as functions from a state record to the set of    *)
(* states the call can end in.                                             *)
(***************************************************************************)
\* GameState::executeMove
ExecuteMove(S, move) ==
    LET capturedPiece == GetPiece(S.squares, move.to)
        m == IF capturedPiece # NoPiece
             THEN [move EXCEPT !.capturedPiece = capturedPiece]
             ELSE move
        \* board.movePiece deletes what the destination slot owned
        deleted == IF IsValid(move.from) /\ IsValid(move.to) /\ move.from # move.to
                   THEN Delete(S, capturedPiece) ELSE {S}
    IN  UNION {
          IF D.aborted THEN {D}
          ELSE (IF move.piece \in D.freed THEN {Abort(S)} ELSE {}) \cup
               { [D EXCEPT
                    !.squares = MovePiece(D.squares, move.from, move.to),
                    !.pieces[move.piece].hasMoved = TRUE,
                    !.moveHistory = Append(D.moveHistory, m),
                    !.currentPlayer = SwitchPlayer(D.currentPlayer)] }
          : D \in deleted }

\* Variants of the two counter updates, each a slip the code could have
\* made: the clock is never reset; the full-move number is raised when the
\* side now to move is Black, that is after White's move.
HalfMoveClockNeverReset(S) == S.halfMoveClock + 1
FullMoveNumberAfterWhite(S) ==
    IF S.currentPlayer = BLACK THEN S.fullMoveNumber + 1 ELSE S.fullMoveNumber

\* updateGameState, "Update halfmove clock"
HalfMoveClockUpdate(S) ==
    LET back == Back(S.moveHistory)
    IN  IF back.capturedPiece # NoPiece \/ S.pieces[back.piece].type = PAWN
        THEN 0 ELSE S.halfMoveClock + 1

\* updateGameState, "Update fullmove number": executeMove has already
\* switched the player
FullMoveNumberUpdate(S) ==
    IF S.currentPlayer = WHITE THEN S.fullMoveNumber + 1 ELSE S.fullMoveNumber

\* GameState::updateGameState
UpdateGameState(S) ==
    LET T == [S EXCEPT !.halfMoveClock = HalfMoveClockUpdate(S),
                       !.fullMoveNumber = FullMoveNumberUpdate(S)]
    IN  [T EXCEPT !.positionHistory = Increment(T.positionHistory, GetFEN(T))]

Outcome(S, ret, exit) == [ st |-> S, ret |-> ret, exit |-> exit ]

\* Variants of the early return, each a slip the code could have made: the
\* turn is consumed before the move is refused; `return true` on an empty
\* source; `return true` on a piece of the side not to move.
RejectAfterSwitch(S, exit) ==
    Outcome([S EXCEPT !.currentPlayer = IF @ = WHITE THEN BLACK ELSE WHITE],
            FALSE, exit)
RejectAcceptsNoPiece(S, exit) == Outcome(S, exit = "noPiece", exit)
RejectAcceptsWrongTurn(S, exit) == Outcome(S, exit = "wrongTurn", exit)

\* `return false` of makeMove (lines 233 and 237): nothing was touched
Reject(S, exit) == Outcome(S, FALSE, exit)

\* GameState::makeMove(from, to)
\* GameState::makeMove up to and including executeMove; exit "executed"
\* marks the outcomes in which updateGameState is still to run
MakeMoveSteps(S, from, to) ==
    LET piece == GetPiece(S.squares, from)
    IN  IF piece = NoPiece THEN { Reject(S, "noPiece") }
        ELSE
          (IF piece \in S.freed THEN { Outcome(Abort(S), FALSE, "abort") } ELSE {})
          \cup
          (IF S.pieces[piece].color # S.currentPlayer
           THEN { Reject(S, "wrongTurn") }
           ELSE IF ~CanMoveTo(S.squares, S.pieces, piece, to)
           THEN { Reject(S, "cannotMove") }
           ELSE
             LET move0 == NewMove(from, to, piece)
                 move == IF S.pieces[piece].type = KING THEN HandleCastling(move0)
                         ELSE IF S.pieces[piece].type = PAWN
                         THEN HandlePromotion(HandleEnPassant(move0))
                         ELSE move0
             IN  UNION {
                   IF E.aborted THEN { Outcome(Abort(S), FALSE, "abort") }
                   ELSE (IF DanglingOnBoard(E)
                         THEN { Outcome(Abort(S), FALSE, "abort") } ELSE {})
                        \cup { Outcome(E, TRUE, "executed") }
                   : E \in ExecuteMove(S, move) })

\* GameState::makeMove
MakeMove(S, from, to) ==
    { IF o.exit = "executed"
      THEN Outcome(UpdateGameState(o.st), TRUE, "done") ELSE o :
      o \in MakeMoveSteps(S, from, to) }

\* A variant of the early return of undoMove, a slip the code could have
\* made: the turn is handed back although nothing was undone.
UndoNothingSwitches(S) ==
    { [S EXCEPT !.currentPlayer = IF @ = WHITE THEN BLACK ELSE WHITE] }

\* `if (moveHistory.empty()) return;` of undoMove: nothing was touched
UndoNothing(S) == { S }

\* GameState::undoMove
UndoMove(S) ==
    IF S.moveHistory = << >> THEN UndoNothing(S)
    ELSE
      LET lastMove == Back(S.moveHistory)
          from == lastMove.from
          to == lastMove.to
          \* board.movePiece(to, from) deletes what the slot `from` owned
          deleted == IF IsValid(from) /\ IsValid(to) /\ from # to
                     THEN Delete(S, GetPiece(S.squares, from)) ELSE {S}
      IN  UNION {
            IF D.aborted THEN { Abort(S) }
            ELSE
              LET moved == MovePiece(D.squares, to, from)
                  restored == IF lastMove.capturedPiece # NoPiece
                              THEN SetPiece(moved, to, lastMove.capturedPiece)
                              ELSE moved
              IN  (IF lastMove.piece \in D.freed THEN { Abort(S) } ELSE {}) \cup
                  { [D EXCEPT
                       !.moveHistory = PopBack(D.moveHistory),
                       !.squares = restored,
                       !.pieces[lastMove.piece].hasMoved = ~@,
                       !.currentPlayer = SwitchPlayer(D.currentPlayer)] }
            : D \in deleted }

(***************************************************************************)
(* Queries.  They are const members; each is a function from the state     *)
(* record to the set of values the call can return.                        *)
(***************************************************************************)
\* `Position kingPos;` of isCheck is assigned only when a king is found;
\* otherwise it holds whatever the stack held: any square, or a position
\* off the board
StackPositions == Squares \cup { << -1, BoardSize >> }

\* the king search of isCheck: `break` leaves the column loop only, so the
\* scan goes on through the later rows and the last row holding a king of
\* that colour decides, by its leftmost king
FindKing(S, color) ==
    LET isKing(pos) == /\ GetPiece(S.squares, pos) # NoPiece
                       /\ S.pieces[GetPiece(S.squares, pos)].type = KING
                       /\ S.pieces[GetPiece(S.squares, pos)].color = color
        found == { pos \in Squares : isKing(pos) }
    IN  IF found = {} THEN StackPositions
        ELSE LET row == CHOOSE r \in { Row(pos) : pos \in found } :
                            \A pos \in found : Row(pos) <= r
                 col == CHOOSE c \in { Col(pos) : pos \in found } :
                            /\ << row, c >> \in found
                            /\ \A pos \in found : Row(pos) = row => c <= Col(pos)
             IN  { << row, col >> }

\* the second loop of isCheck: some piece of the other colour canMoveTo(kingPos)
CanCaptureKing(S, color, kingPos) ==
    LET opponentColor == IF color = WHITE THEN BLACK ELSE WHITE
    IN  \E pos \in Squares :
           /\ GetPiece(S.squares, pos) # NoPiece
           /\ S.pieces[GetPiece(S.squares, pos)].color = opponentColor
           /\ CanMoveTo(S.squares, S.pieces, GetPiece(S.squares, pos), kingPos)

\* GameState::isCheck(color): the values it can return
IsCheck(S, color) == { CanCaptureKing(S, color, kingPos) : kingPos \in FindKing(S, color) }

\* the (piece, move) pairs the loops of isCheckmate and isStalemate visit
PieceMoves(S, color) ==
    UNION { { << GetPiece(S.squares, pos), move >> :
              move \in GetValidMoves(S.squares, S.pieces, GetPiece(S.squares, pos)) } :
            pos \in { p \in Squares :
                        /\ GetPiece(S.squares, p) # NoPiece
                        /\ S.pieces[GetPiece(S.squares, p)].color = color } }

\* GameState::isCheckmate(color).  Each trial move is made on tempBoard, a
\* copy that dies at the end of the loop body; isCheck(color) reads the
\* member board, which no trial move has touched.
IsCheckmate(S, color) ==
    LET first == IsCheck(S, color)
        trials == PieceMoves(S, color)
        tempBoard(pm) == MovePiece(S.squares, S.pieces[pm[1]].position, pm[2])
        stillInCheck == IsCheck(S, color)
    IN  { FALSE : v \in { w \in first : ~w } }
        \cup (IF TRUE \in first
              THEN IF trials = {} THEN { TRUE }
                   ELSE { v : v \in stillInCheck }
              ELSE {})

\* GameState::isStalemate(color): no piece of the colour has a non-empty
\* getValidMoves
IsStalemate(S, color) ==
    { FALSE : v \in { w \in IsCheck(S, color) : w } }
    \cup { PieceMoves(S, color) = {} : v \in { w \in IsCheck(S, color) : ~w } }

\* GameState::isInsufficientMaterial: `return false;  // Simplified`
IsInsufficientMaterial(S) == FALSE

\* GameState::isThreefoldRepetition
IsThreefoldRepetition(S) ==
    \E key \in DOMAIN S.positionHistory : S.positionHistory[key] >= 3

\* GameState::isDraw
IsDraw(S) ==
    IF IsInsufficientMaterial(S) THEN TRUE
    ELSE IF IsThreefoldRepetition(S) THEN TRUE
    ELSE IF S.halfMoveClock >= 50 THEN TRUE
    ELSE FALSE

\* GameState::getValidMoves(pos): the sets of destinations it can return.
\* As in isCheckmate the trial move goes to tempBoard and isCheck reads the
\* member board.
GameGetValidMoves(S, pos) ==
    LET piece == GetPiece(S.squares, pos)
    IN  IF piece = NoPiece THEN { {} }
        ELSE LET moves == GetValidMoves(S.squares, S.pieces, piece)
                 tempBoard(move) == MovePiece(S.squares, pos, move)
                 inCheck == IsCheck(S, S.pieces[piece].color)
             IN  { validMoves \in SUBSET moves :
                     \A move \in moves :
                        /\ move \in validMoves => FALSE \in inCheck
                        /\ move \notin validMoves => TRUE \in inCheck }

(***************************************************************************)
(* The state machine.                                                      *)
(***************************************************************************)
VARIABLES squares, pieces, freed, currentPlayer, moveHistory,
          whiteKingMoved, blackKingMoved, whiteRookMoved, blackRookMoved,
          enPassantTarget, halfMoveClock, fullMoveNumber, positionHistory,
          aborted, last, stateMutex,
          coordinate, text,
          levels, vehicleLocation, waiting,
          machine, locks, pc

vars == << squares, pieces, freed, currentPlayer, moveHistory,
           whiteKingMoved, blackKingMoved, whiteRookMoved, blackRookMoved,
           enPassantTarget, halfMoveClock, fullMoveNumber, positionHistory,
           aborted, last, stateMutex,
           coordinate, text,
           levels, vehicleLocation, waiting,
           machine, locks, pc >>

\* a Position and the notation string last produced from or parsed into it
coordinates == << coordinate, text >>

\* a ParkingLot (its levels and its vehicleLocation map) and the threads that
\* have yet to make their call
lot == << levels, vehicleLocation, waiting >>

\* a VendingMachine, its mutexes and the position of its caller
vending == << machine, locks, pc >>

\* the objects of the other specifications, which a game does not touch
aside == << coordinates, lot, vending >>
CoordinatesIdle == coordinate = << 0, 0 >> /\ text = << >>
LotIdle == levels = << >> /\ vehicleLocation = << >> /\ waiting = {}
VendingIdle == machine = << >> /\ locks = << >> /\ pc = << >>
AsideInit == CoordinatesIdle /\ LotIdle /\ VendingIdle

\* the GameState object as a record
State ==
    [ squares |-> squares, pieces |-> pieces, freed |-> freed,
      currentPlayer |-> currentPlayer, moveHistory |-> moveHistory,
      whiteKingMoved |-> whiteKingMoved, blackKingMoved |-> blackKingMoved,
      whiteRookMoved |-> whiteRookMoved, blackRookMoved |-> blackRookMoved,
      enPassantTarget |-> enPassantTarget, halfMoveClock |-> halfMoveClock,
      fullMoveNumber |-> fullMoveNumber, positionHistory |-> positionHistory,
      aborted |-> aborted ]

\* stateMutex: whether a makeMove holds it and, if so, what getFEN returned
\* when the call took it
Unlocked == [ held |-> FALSE, before |-> << >> ]
Locked(S) == [ held |-> TRUE, before |-> GetFEN(S) ]

InstallObject(S) ==
    /\ squares' = S.squares
    /\ pieces' = S.pieces
    /\ freed' = S.freed
    /\ currentPlayer' = S.currentPlayer
    /\ moveHistory' = S.moveHistory
    /\ whiteKingMoved' = S.whiteKingMoved
    /\ blackKingMoved' = S.blackKingMoved
    /\ whiteRookMoved' = S.whiteRookMoved
    /\ blackRookMoved' = S.blackRookMoved
    /\ enPassantTarget' = S.enPassantTarget
    /\ halfMoveClock' = S.halfMoveClock
    /\ fullMoveNumber' = S.fullMoveNumber
    /\ positionHistory' = S.positionHistory
    /\ aborted' = S.aborted
    /\ UNCHANGED aside

\* the object after an operation that ran from its first line to its return
\* with no other thread in between
Install(S) == InstallObject(S) /\ UNCHANGED stateMutex

\* Members the constructor leaves uninitialised hold whatever the memory
\* held: whiteRookMoved[2], blackRookMoved[2], enPassantTarget.  Two images
\* of that memory: all zero bytes, and non-zero bytes.
UninitImages ==
    { [ flags |-> [ i \in 0 .. 1 |-> FALSE ], target |-> << 0, 0 >> ],
      [ flags |-> [ i \in 0 .. 1 |-> TRUE ], target |-> << -1, 8 >> ] }

\* GameState::GameState
Init ==
    /\ squares = InitSquares
    /\ pieces = InitPieces
    /\ freed = {}
    /\ currentPlayer = WHITE
    /\ moveHistory = << >>
    /\ whiteKingMoved = FALSE
    /\ blackKingMoved = FALSE
    /\ \E image \in UninitImages :
         /\ whiteRookMoved = image.flags
         /\ blackRookMoved = image.flags
         /\ enPassantTarget = image.target
    /\ halfMoveClock = 0
    /\ fullMoveNumber = 1
    /\ positionHistory = << >>
    /\ aborted = FALSE
    /\ last = [ op |-> "none", ret |-> FALSE, exit |-> "none" ]
    /\ stateMutex = Unlocked
    /\ AsideInit

\* a square by file letter and rank number
FileIndex == [ a |-> 0, b |-> 1, c |-> 2, d |-> 3, e |-> 4, f |-> 5, g |-> 6, h |-> 7 ]
Sq(file, rank) == << BoardSize - rank, FileIndex[file] >>

\* the piece that stands on the named square in the initial position
HomeOf(file, rank) == InitSquares[Sq(file, rank)]

\* The squares the explored games call makeMove with: the white e-pawn and
\* its steps, the white queen's home and her diagonal's end h5, the black f-
\* and h-pawns and their steps, and one position beyond the board edge.
InputSquares ==
    { Sq("d", 1), Sq("e", 2), Sq("e", 3), Sq("e", 4), Sq("h", 5), Sq("h", 7),
      Sq("h", 6), Sq("f", 7), Sq("f", 6), << 0, BoardSize >> }

MakeMoveCall ==
    /\ ~aborted
    /\ \E from \in InputSquares, to \in InputSquares :
         \E o \in MakeMove(State, from, to) :
            /\ o.ret => TotalCount(positionHistory) < MaxMoves
            /\ Install(o.st)
            /\ last' = [ op |-> "makeMove", ret |-> o.ret, exit |-> o.exit ]

UndoMoveCall ==
    /\ ~aborted
    /\ \E T \in UndoMove(State) :
            /\ Install(T)
            /\ last' = [ op |-> "undoMove", ret |-> FALSE,
                         exit |-> IF T.aborted THEN "abort" ELSE "done" ]

Next == MakeMoveCall \/ UndoMoveCall

Spec == Init /\ [][Next]_vars

\* The squares of testCheckmateDetection's game f2-f4, e7-e6, g2-g4, d8-h4:
\* the white f- and g-pawns, the black e-pawn, the black queen and the
\* squares they go to.
MaxMateMoves == 4

MateInputSquares ==
    { Sq("f", 2), Sq("f", 4), Sq("e", 7), Sq("e", 6), Sq("g", 2), Sq("g", 4),
      Sq("d", 8), Sq("h", 4) }

MateMoveCall ==
    /\ ~aborted
    /\ \E from \in MateInputSquares, to \in MateInputSquares :
         \E o \in MakeMove(State, from, to) :
            /\ o.ret => TotalCount(positionHistory) < MaxMateMoves
            /\ Install(o.st)
            /\ last' = [ op |-> "makeMove", ret |-> o.ret, exit |-> o.exit ]

NextMate == MateMoveCall \/ UndoMoveCall

SpecMate == Init /\ [][NextMate]_vars

\* The squares of testBasicMoves' opening e2-e4, e7-e5, g1-f3, b8-c6.
MaxOpeningMoves == 4

OpeningInputSquares ==
    { Sq("e", 2), Sq("e", 4), Sq("e", 7), Sq("e", 5), Sq("g", 1), Sq("f", 3),
      Sq("b", 8), Sq("c", 6) }

OpeningMoveCall ==
    /\ ~aborted
    /\ \E from \in OpeningInputSquares, to \in OpeningInputSquares :
         \E o \in MakeMove(State, from, to) :
            /\ o.ret => TotalCount(positionHistory) < MaxOpeningMoves
            /\ Install(o.st)
            /\ last' = [ op |-> "makeMove", ret |-> o.ret, exit |-> o.exit ]

NextOpening == OpeningMoveCall \/ UndoMoveCall

SpecOpening == Init /\ [][NextOpening]_vars

(***************************************************************************)
(* Long games without undoMove: makeMove called with the moves of a fixed  *)
(* list.                                                                   *)
(***************************************************************************)
PlayCall(moves, maxPlies) ==
    /\ ~aborted
    /\ \E move \in moves :
         \E o \in MakeMove(State, move[1], move[2]) :
            /\ o.ret => Len(moveHistory) < maxPlies
            /\ Install(o.st)
            /\ last' = [ op |-> "makeMove", ret |-> o.ret, exit |-> o.exit ]

\* After e2-e3, d2-d3, e7-e6 and d7-d6 each king steps out to its e-pawn's
\* square and then to and fro between it and the d-pawn's: the position
\* after Ke2 Ke7 comes back every four plies.
MaxShuttlePlies == 14

ShuttleMoves ==
    { << Sq("e", 2), Sq("e", 3) >>, << Sq("d", 2), Sq("d", 3) >>,
      << Sq("e", 1), Sq("e", 2) >>, << Sq("e", 2), Sq("d", 2) >>,
      << Sq("d", 2), Sq("e", 2) >>,
      << Sq("e", 7), Sq("e", 6) >>, << Sq("d", 7), Sq("d", 6) >>,
      << Sq("e", 8), Sq("e", 7) >>, << Sq("e", 7), Sq("d", 7) >>,
      << Sq("d", 7), Sq("e", 7) >> }

ShuttleMoveCall == PlayCall(ShuttleMoves, MaxShuttlePlies)

NextShuttle == ShuttleMoveCall

SpecShuttle == Init /\ [][NextShuttle]_vars

\* After e2-e3, e7-e6 and c7-c6 the white king's knight goes round f3, h3,
\* e2 and the black queen round h4, g5, f6, e7, a5: no pawn moves, nothing is
\* captured, and a position comes back only after thirty plies.
MaxQuietPlies == 54

QuietMoves ==
    { << Sq("e", 2), Sq("e", 3) >>, << Sq("g", 1), Sq("f", 3) >>,
      << Sq("f", 3), Sq("h", 3) >>, << Sq("h", 3), Sq("e", 2) >>,
      << Sq("e", 2), Sq("f", 3) >>,
      << Sq("e", 7), Sq("e", 6) >>, << Sq("c", 7), Sq("c", 6) >>,
      << Sq("d", 8), Sq("h", 4) >>, << Sq("h", 4), Sq("g", 5) >>,
      << Sq("g", 5), Sq("f", 6) >>, << Sq("f", 6), Sq("e", 7) >>,
      << Sq("e", 7), Sq("a", 5) >>, << Sq("a", 5), Sq("h", 4) >> }

QuietMoveCall == PlayCall(QuietMoves, MaxQuietPlies)

NextQuiet == QuietMoveCall

SpecQuiet == Init /\ [][NextQuiet]_vars

(***************************************************************************)
(* The queries as operations, on boards set up piece by piece.             *)
(***************************************************************************)
\* the board as the shown lines of initializeBoard fill it: the sixteen
\* pawns, every other slot null
SourceSquares ==
    [ pos \in Squares |-> IF Row(pos) \in { 1, 6 } THEN InitSquares[pos] ELSE NoPiece ]

\* board.setPiece(pos, make_unique<...>(color, pos)) for each piece of a
\* placement (a function from piece ids to squares): the piece is
\* constructed with the position of its slot
PlacedSquares(placement) ==
    [ pos \in Squares |->
        IF \E id \in DOMAIN placement : placement[id] = pos
        THEN CHOOSE id \in DOMAIN placement : placement[id] = pos
        ELSE NoPiece ]

PlacedPieces(placement) ==
    [ id \in PieceIds |->
        IF id \in DOMAIN placement
        THEN [InitPieces[id] EXCEPT !.position = placement[id]]
        ELSE InitPieces[id] ]

\* The placements the queries are tried on: the black king in the corner
\* a8, the white king on the c-file, and with them no third piece or one
\* white queen, rook, bishop or knight on a6, b6 or b7.
BlackKingId == CHOOSE id \in PieceIds : InitPieces[id].type = KING /\ InitPieces[id].color = BLACK
WhiteKingId == CHOOSE id \in PieceIds : InitPieces[id].type = KING /\ InitPieces[id].color = WHITE

ThirdPieces ==
    { id \in PieceIds : /\ InitPieces[id].color = WHITE
                        /\ InitPieces[id].type \in { QUEEN, ROOK, BISHOP, KNIGHT }
                        /\ Col(InitPosition(id)) <= 3 }

Placements ==
    { (BlackKingId :> Sq("a", 8)) @@ (WhiteKingId :> wk) :
        wk \in { Sq("c", 6), Sq("c", 7), Sq("c", 8) } }
    \cup
    { (BlackKingId :> Sq("a", 8)) @@ (WhiteKingId :> wk) @@ (id :> at) :
        wk \in { Sq("c", 6), Sq("c", 7), Sq("c", 8) },
        id \in ThirdPieces,
        at \in { Sq("a", 6), Sq("b", 6), Sq("b", 7) } }

Boards ==
    { [ squares |-> SourceSquares, pieces |-> InitPieces ] }
    \cup { [ squares |-> PlacedSquares(pl), pieces |-> PlacedPieces(pl) ] :
             pl \in Placements }

\* GameState::GameState over one of the boards
InitBoards ==
    /\ \E b \in Boards : squares = b.squares /\ pieces = b.pieces
    /\ freed = {}
    /\ currentPlayer = WHITE
    /\ moveHistory = << >>
    /\ whiteKingMoved = FALSE
    /\ blackKingMoved = FALSE
    /\ \E image \in UninitImages :
         /\ whiteRookMoved = image.flags
         /\ blackRookMoved = image.flags
         /\ enPassantTarget = image.target
    /\ halfMoveClock = 0
    /\ fullMoveNumber = 1
    /\ positionHistory = << >>
    /\ aborted = FALSE
    /\ last = [ op |-> "none", ret |-> FALSE, exit |-> "none" ]
    /\ stateMutex = Unlocked
    /\ AsideInit

\* The queries are const members: the object is left as it was.  `last`
\* records the query, the value returned and, in exit, the colour asked about.
IsCheckCall ==
    \E color \in Color : \E v \in IsCheck(State, color) :
        Install(State) /\ last' = [ op |-> "isCheck", ret |-> v, exit |-> color ]

IsCheckmateCall ==
    \E color \in Color : \E v \in IsCheckmate(State, color) :
        Install(State) /\ last' = [ op |-> "isCheckmate", ret |-> v, exit |-> color ]

IsStalemateCall ==
    \E color \in Color : \E v \in IsStalemate(State, color) :
        Install(State) /\ last' = [ op |-> "isStalemate", ret |-> v, exit |-> color ]

IsDrawCall ==
    Install(State) /\ last' = [ op |-> "isDraw", ret |-> IsDraw(State), exit |-> "done" ]

NextBoards == IsCheckCall \/ IsCheckmateCall \/ IsStalemateCall \/ IsDrawCall

SpecBoards == InitBoards /\ [][NextBoards]_vars

(***************************************************************************)
(* makeMove on boards that hold a pawn one step from its last rank.        *)
(***************************************************************************)
\* GameState::GameState over one of the given boards
InitOn(boards) ==
    /\ \E b \in boards : squares = b.squares /\ pieces = b.pieces
    /\ freed = {}
    /\ currentPlayer = WHITE
    /\ moveHistory = << >>
    /\ whiteKingMoved = FALSE
    /\ blackKingMoved = FALSE
    /\ \E image \in UninitImages :
         /\ whiteRookMoved = image.flags
         /\ blackRookMoved = image.flags
         /\ enPassantTarget = image.target
    /\ halfMoveClock = 0
    /\ fullMoveNumber = 1
    /\ positionHistory = << >>
    /\ aborted = FALSE
    /\ last = [ op |-> "none", ret |-> FALSE, exit |-> "none" ]
    /\ stateMutex = Unlocked
    /\ AsideInit

\* The placements: both kings at home and, in any combination but the
\* empty one, the white a- and b-pawns on the seventh rank and the black g-
\* and h-pawns on the second.
PromotionPawns ==
    (HomeOf("a", 2) :> Sq("a", 7)) @@ (HomeOf("b", 2) :> Sq("b", 7))
    @@ (HomeOf("g", 7) :> Sq("g", 2)) @@ (HomeOf("h", 7) :> Sq("h", 2))

PromotionPlacements ==
    { (WhiteKingId :> Sq("e", 1)) @@ (BlackKingId :> Sq("e", 8))
      @@ [ id \in pawns |-> PromotionPawns[id] ] :
      pawns \in SUBSET (DOMAIN PromotionPawns) \ { {} } }

PromotionBoards ==
    { [ squares |-> PlacedSquares(pl), pieces |-> PlacedPieces(pl) ] :
      pl \in PromotionPlacements }

MaxPromotionMoves == 3

PromotionInputSquares ==
    { Sq("a", 7), Sq("a", 8), Sq("b", 7), Sq("b", 8), Sq("g", 2), Sq("g", 1),
      Sq("h", 2), Sq("h", 1), Sq("e", 1), Sq("e", 2), Sq("e", 8), Sq("e", 7) }

PromotionMoveCall ==
    /\ ~aborted
    /\ \E from \in PromotionInputSquares, to \in PromotionInputSquares :
         \E o \in MakeMove(State, from, to) :
            /\ o.ret => TotalCount(positionHistory) < MaxPromotionMoves
            /\ Install(o.st)
            /\ last' = [ op |-> "makeMove", ret |-> o.ret, exit |-> o.exit ]

NextPromotion == PromotionMoveCall

SpecPromotion == InitOn(PromotionBoards) /\ [][NextPromotion]_vars

(***************************************************************************)
(* Concurrent callers.  makeMove takes stateMutex on its first line and    *)
(* holds it to its return; undoMove and getFEN take no lock, so their      *)
(* steps can fall between executeMove and updateGameState of a makeMove.   *)
(***************************************************************************)
MaxThreadMoves == 2

ThreadInputSquares ==
    { Sq("e", 2), Sq("e", 4), Sq("g", 1), Sq("f", 3), Sq("e", 7), Sq("e", 5) }

\* GameState::updateGameState when another thread may have emptied
\* moveHistory since executeMove: back() of an empty vector is undefined, the
\* call crashes or reads a Move of any content
UpdateGameStateRacing(S) ==
    IF S.moveHistory # << >> THEN { UpdateGameState(S) }
    ELSE { Abort(S) }
         \cup { [T EXCEPT !.positionHistory = Increment(T.positionHistory, GetFEN(T))] :
                T \in { [S EXCEPT !.halfMoveClock = clock,
                                  !.fullMoveNumber = FullMoveNumberUpdate(S)] :
                        clock \in { 0, S.halfMoveClock + 1 } } }

\* makeMove from lock_guard to the return of executeMove, or to an early
\* return (which releases the lock at once); blocked while another makeMove
\* holds the lock
BeginMakeMove ==
    /\ ~aborted
    /\ ~stateMutex.held
    /\ \E from \in ThreadInputSquares, to \in ThreadInputSquares :
         \E o \in MakeMoveSteps(State, from, to) :
            /\ InstallObject(o.st)
            /\ IF o.exit = "executed"
               THEN /\ TotalCount(positionHistory) < MaxThreadMoves
                    /\ stateMutex' = Locked(State)
                    /\ UNCHANGED last
               ELSE /\ UNCHANGED stateMutex
                    /\ last' = [ op |-> "makeMove", ret |-> o.ret, exit |-> o.exit ]

\* makeMove from updateGameState to `return true`, where the lock_guard
\* releases the lock
FinishMakeMove ==
    /\ ~aborted
    /\ stateMutex.held
    /\ \E T \in UpdateGameStateRacing(State) :
         /\ InstallObject(T)
         /\ stateMutex' = Unlocked
         /\ last' = [ op |-> "makeMove", ret |-> ~T.aborted,
                      exit |-> IF T.aborted THEN "abort" ELSE "done" ]

\* getFEN, a const member that takes no lock; `last` records the string
GetFENCall ==
    /\ ~aborted
    /\ Install(State)
    /\ last' = [ op |-> "getFEN", ret |-> GetFEN(State), exit |-> "done" ]

NextThreads == BeginMakeMove \/ FinishMakeMove \/ UndoMoveCall \/ GetFENCall

SpecThreads == Init /\ [][NextThreads]_vars

(***************************************************************************)
(* Position on its own: construction from text, getNotation.               *)
(***************************************************************************)
game == << squares, pieces, freed, currentPlayer, moveHistory,
           whiteKingMoved, blackKingMoved, whiteRookMoved, blackRookMoved,
           enPassantTarget, halfMoveClock, fullMoveNumber, positionHistory,
           aborted, stateMutex >>

\* a GameState that stands aside, untouched by the operations under study
GameAside ==
    /\ squares = InitSquares
    /\ pieces = InitPieces
    /\ freed = {}
    /\ currentPlayer = WHITE
    /\ moveHistory = << >>
    /\ whiteKingMoved = FALSE
    /\ blackKingMoved = FALSE
    /\ whiteRookMoved = [ i \in 0 .. 1 |-> FALSE ]
    /\ blackRookMoved = [ i \in 0 .. 1 |-> FALSE ]
    /\ enPassantTarget = << 0, 0 >>
    /\ halfMoveClock = 0
    /\ fullMoveNumber = 1
    /\ positionHistory = << >>
    /\ aborted = FALSE
    /\ stateMutex = Unlocked

\* rows and columns given to Position(int, int): the board and one step
\* beyond each edge
CoordinateInputs == (-1 .. BoardSize) \X (-1 .. BoardSize)

\* the characters of the input strings: a e h i z 0 1 2 8 9
TextChars == { 97, 101, 104, 105, 122, 48, 49, 50, 56, 57 }

MaxTextLen == 3

\* every string over TextChars shorter than MaxTextLen, and the square
\* names with one more character
Texts ==
    UNION { [ 1 .. n -> TextChars ] : n \in 0 .. MaxTextLen - 1 }
    \cup { << 97, 49, c >> : c \in TextChars }
    \cup { << 101, 50, c >> : c \in TextChars }

InitCoordinates ==
    /\ GameAside
    /\ LotIdle
    /\ VendingIdle
    /\ coordinate \in CoordinateInputs
    /\ text = << >>
    /\ last = [ op |-> "Position", ret |-> TRUE, exit |-> "done" ]

\* string s = coordinate.getNotation()
GetNotationCall ==
    /\ text' = GetNotation(coordinate)
    /\ last' = [ op |-> "getNotation", ret |-> TRUE, exit |-> "done" ]
    /\ UNCHANGED << game, lot, vending, coordinate >>

\* coordinate = Position(t): last.ret tells whether a Position was
\* constructed, text is the string it was constructed from
FromNotationCall ==
    \E t \in Texts :
        LET r == PositionFromNotation(t)
        IN  IF r.thrown
            THEN /\ last' = [ op |-> "fromNotation", ret |-> FALSE,
                              exit |-> "invalid_argument" ]
                 /\ UNCHANGED << game, lot, vending, coordinate, text >>
            ELSE /\ coordinate' = r.pos
                 /\ text' = t
                 /\ last' = [ op |-> "fromNotation", ret |-> TRUE, exit |-> "done" ]
                 /\ UNCHANGED << game, lot, vending >>

NextCoordinates == GetNotationCall \/ FromNotationCall

SpecCoordinates == InitCoordinates /\ [][NextCoordinates]_vars

(***************************************************************************)
(* The parking lot (parking-lot/implementation.cpp).  A vehicle is its     *)
(* licence plate; a spot is its spotType and the plate of the vehicle      *)
(* parked on it, NoVehicle for nullptr.  A lot L is the record of levels   *)
(* (each a sequence of spots) and vehicleLocation (plate -> <<level,       *)
(* index>>).                                                               *)
(***************************************************************************)
MOTORCYCLE == "MOTORCYCLE"
CAR == "CAR"
BUS == "BUS"

NoVehicle == ""

\* Motorcycle, Car, Bus: the type and spotsNeeded their constructors pass on
Motorcycle(licensePlate) ==
    [ licensePlate |-> licensePlate, type |-> MOTORCYCLE, spotsNeeded |-> 1 ]
Car(licensePlate) ==
    [ licensePlate |-> licensePlate, type |-> CAR, spotsNeeded |-> 1 ]
Bus(licensePlate) ==
    [ licensePlate |-> licensePlate, type |-> BUS, spotsNeeded |-> 5 ]

\* ParkingSpot::ParkingSpot
ParkingSpot(spotType) == [ spotType |-> spotType, parkedVehicle |-> NoVehicle ]

\* ParkingSpot::isAvailable
IsAvailable(spot) == spot.parkedVehicle = NoVehicle

\* ParkingSpot::canFitVehicle
CanFitVehicle(spot, vehicle) ==
    IF ~IsAvailable(spot) THEN FALSE
    ELSE IF vehicle.type = MOTORCYCLE THEN TRUE
    ELSE IF vehicle.type = CAR THEN spot.spotType = CAR \/ spot.spotType = BUS
    ELSE IF vehicle.type = BUS THEN spot.spotType = BUS
    ELSE FALSE

\* ParkingSpot::park, on a spot canFitVehicle accepted
Park(spot, vehicle) == [spot EXCEPT !.parkedVehicle = vehicle.licensePlate]

\* ParkingSpot::unpark: the spot afterwards and the value returned
Unpark(spot) ==
    IF ~IsAvailable(spot)
    THEN [ spot |-> [spot EXCEPT !.parkedVehicle = NoVehicle], ret |-> TRUE ]
    ELSE [ spot |-> spot, ret |-> FALSE ]

\* the body of the row loop of Level::Level: one motorcycle spot, two compact
\* spots, large spots for spot = 3 .. spotsPerRow - 1
RowSpots(spotsPerRow) ==
    << ParkingSpot(MOTORCYCLE), ParkingSpot(CAR), ParkingSpot(CAR) >>
    \o [ i \in 1 .. (IF spotsPerRow > 3 THEN spotsPerRow - 3 ELSE 0) |->
            ParkingSpot(BUS) ]

\* Level::Level
RECURSIVE Level(_, _)
Level(rows, spotsPerRow) ==
    IF rows <= 0 THEN << >>
    ELSE RowSpots(spotsPerRow) \o Level(rows - 1, spotsPerRow)

\* ParkingLot::ParkingLot
ParkingLot(numLevels, rowsPerLevel, spotsPerRow) ==
    [ levels |-> [ i \in 1 .. numLevels |-> Level(rowsPerLevel, spotsPerRow) ],
      vehicleLocation |-> << >> ]

\* the spots a bus needs in a row of the vector
BusSpots == 5

\* Level::parkBus on the spots of one level: the first i with BusSpots
\* fitting spots from i on; size() - 5 is unsigned, the levels here hold
\* at least BusSpots spots
ParkBus(spots, bus) ==
    LET starts == { i \in 1 .. Len(spots) - BusSpots + 1 :
                     \A j \in 0 .. BusSpots - 1 : CanFitVehicle(spots[i + j], bus) }
    IN  IF starts = {} THEN [ spots |-> spots, ret |-> FALSE ]
        ELSE LET i == CHOOSE a \in starts : \A b \in starts : a <= b
             IN  [ spots |-> [ k \in 1 .. Len(spots) |->
                                IF k >= i /\ k < i + BusSpots
                                THEN Park(spots[k], bus) ELSE spots[k] ],
                   ret |-> TRUE ]

\* Level::parkVehicle on the spots of one level
LevelParkVehicle(spots, vehicle) ==
    IF vehicle.type = BUS THEN ParkBus(spots, vehicle)
    ELSE LET fits == { i \in 1 .. Len(spots) : CanFitVehicle(spots[i], vehicle) }
         IN  IF fits = {} THEN [ spots |-> spots, ret |-> FALSE ]
             ELSE LET i == CHOOSE a \in fits : \A b \in fits : a <= b
                  IN  [ spots |-> [spots EXCEPT ![i] = Park(spots[i], vehicle)],
                        ret |-> TRUE ]

\* Level::getAvailableSpots
LevelAvailableSpots(spots) ==
    Cardinality({ i \in 1 .. Len(spots) : IsAvailable(spots[i]) })

\* vehicleLocation[plate] = spot
Locate(map, plate, where) ==
    [ p \in DOMAIN map \cup { plate } |-> IF p = plate THEN where ELSE map[p] ]

\* the search of ParkingLot::parkVehicle after level->parkVehicle succeeded:
\* the first spot of the level that holds the vehicle's plate
RecordLocation(L, n, vehicle) ==
    LET spots == L.levels[n]
        held == { i \in 1 .. Len(spots) :
                    /\ ~IsAvailable(spots[i])
                    /\ spots[i].parkedVehicle = vehicle.licensePlate }
    IN  IF held = {} THEN L
        ELSE [L EXCEPT !.vehicleLocation =
                Locate(@, vehicle.licensePlate,
                       << n, CHOOSE a \in held : \A b \in held : a <= b >>)]

\* ParkingLot::parkVehicle, the levels from n on
RECURSIVE ParkFrom(_, _, _)
ParkFrom(L, n, vehicle) ==
    IF n > Len(L.levels) THEN [ lot |-> L, ret |-> FALSE ]
    ELSE LET r == LevelParkVehicle(L.levels[n], vehicle)
         IN  IF r.ret
             THEN [ lot |-> RecordLocation([L EXCEPT !.levels[n] = r.spots],
                                           n, vehicle),
                    ret |-> TRUE ]
             ELSE ParkFrom(L, n + 1, vehicle)

\* ParkingLot::parkVehicle
ParkVehicle(L, vehicle) == ParkFrom(L, 1, vehicle)

\* vehicleLocation.erase(it)
Erase(map, plate) == [ p \in DOMAIN map \ { plate } |-> map[p] ]

\* ParkingLot::unparkVehicle
UnparkVehicle(L, licensePlate) ==
    IF licensePlate \notin DOMAIN L.vehicleLocation
    THEN [ lot |-> L, ret |-> FALSE ]
    ELSE LET where == L.vehicleLocation[licensePlate]
             r == Unpark(L.levels[where[1]][where[2]])
         IN  IF r.ret
             THEN [ lot |-> [L EXCEPT !.levels[where[1]][where[2]] = r.spot,
                                      !.vehicleLocation = Erase(@, licensePlate)],
                    ret |-> TRUE ]
             ELSE [ lot |-> L, ret |-> FALSE ]

\* ParkingLot::getAvailableSpots
RECURSIVE AvailableFrom(_, _)
AvailableFrom(lvls, n) ==
    IF n > Len(lvls) THEN 0
    ELSE LevelAvailableSpots(lvls[n]) + AvailableFrom(lvls, n + 1)

GetAvailableSpots(L) == AvailableFrom(L.levels, 1)

\* the ParkingLot object as a record
Lot == [ levels |-> levels, vehicleLocation |-> vehicleLocation ]

InstallLot(L) ==
    /\ levels' = L.levels
    /\ vehicleLocation' = L.vehicleLocation

(***************************************************************************)
(* Concurrent parking: one thread per car, each making one parkVehicle     *)
(* call on a lot of one level and one row with as many spots as there are  *)
(* cars; the main thread reads getAvailableSpots after joining them all.   *)
(* parkVehicle holds parkingLotMutex from its first line to its return.    *)
(***************************************************************************)
ThreadSpots == 7

CarPlates ==
    << "CAR0", "CAR1", "CAR2", "CAR3", "CAR4", "CAR5", "CAR6", "CAR7", "CAR8",
       "CAR9" >>

ThreadCars == { CarPlates[i] : i \in 1 .. ThreadSpots }

InitParkingThreads ==
    /\ GameAside
    /\ CoordinatesIdle
    /\ VendingIdle
    /\ levels = ParkingLot(1, 1, ThreadSpots).levels
    /\ vehicleLocation = ParkingLot(1, 1, ThreadSpots).vehicleLocation
    /\ waiting = ThreadCars
    /\ last = [ op |-> "ParkingLot", ret |-> 0, exit |-> NoVehicle ]

\* the body of one thread: parkingLot.parkVehicle(&cars[i])
ThreadParkVehicle ==
    \E plate \in waiting :
        LET r == ParkVehicle(Lot, Car(plate))
        IN  /\ InstallLot(r.lot)
            /\ waiting' = waiting \ { plate }
            /\ last' = [ op |-> "parkVehicle", ret |-> r.ret, exit |-> plate ]
            /\ UNCHANGED << game, coordinates, vending >>

\* parkingLot.getAvailableSpots() of the main thread, after the joins
JoinedGetAvailableSpots ==
    /\ waiting = {}
    /\ last' = [ op |-> "getAvailableSpots", ret |-> GetAvailableSpots(Lot),
                 exit |-> NoVehicle ]
    /\ UNCHANGED << game, coordinates, vending, lot >>

NextParkingThreads == ThreadParkVehicle \/ JoinedGetAvailableSpots

SpecParkingThreads == InitParkingThreads /\ [][NextParkingThreads]_vars

(***************************************************************************)
(* The Board on its own: getPiece, setPiece and movePiece called by a      *)
(* client that constructs the pieces it hands over.  `last` records the    *)
(* call with its positions.                                                *)
(***************************************************************************)
\* the positions given to the calls: three squares and three positions off
\* the board
BoardPositions ==
    { << 0, 0 >>, << 0, 1 >>, << BoardSize - 1, BoardSize - 1 >>,
      << -1, 0 >>, << 0, BoardSize >>, << BoardSize, BoardSize >> }

\* the pieces the client constructs: a white pawn and the two kings
ClientPieces == { HomeOf("e", 2), WhiteKingId, BlackKingId }

\* a piece the client still owns: handed to no slot, not destroyed
Owned(id) ==
    /\ id \notin freed
    /\ \A pos \in Squares : squares[pos] # id

\* Board::Board: squares.resize(8, vector<unique_ptr<Piece>>(8))
InitBoard ==
    /\ squares = [ pos \in Squares |-> NoPiece ]
    /\ pieces = InitPieces
    /\ freed = {}
    /\ currentPlayer = WHITE
    /\ moveHistory = << >>
    /\ whiteKingMoved = FALSE
    /\ blackKingMoved = FALSE
    /\ whiteRookMoved = [ i \in 0 .. 1 |-> FALSE ]
    /\ blackRookMoved = [ i \in 0 .. 1 |-> FALSE ]
    /\ enPassantTarget = << 0, 0 >>
    /\ halfMoveClock = 0
    /\ fullMoveNumber = 1
    /\ positionHistory = << >>
    /\ aborted = FALSE
    /\ stateMutex = Unlocked
    /\ AsideInit
    /\ last = [ op |-> "Board", ret |-> NoPiece, from |-> << 0, 0 >>,
                to |-> << 0, 0 >> ]

\* what a Board call leaves alone
BoardFrame ==
    UNCHANGED << currentPlayer, moveHistory, whiteKingMoved, blackKingMoved,
                 whiteRookMoved, blackRookMoved, enPassantTarget, halfMoveClock,
                 fullMoveNumber, positionHistory, aborted, stateMutex, aside >>

\* board.getPiece(pos)
BoardGetPiece ==
    \E pos \in BoardPositions :
        /\ last' = [ op |-> "getPiece", ret |-> GetPiece(squares, pos),
                     from |-> pos, to |-> pos ]
        /\ UNCHANGED << squares, pieces, freed >>
        /\ BoardFrame

\* board.setPiece(pos, piece) with a piece the client owns, or with an empty
\* unique_ptr. The slot's former piece is deleted by the assignment; off the
\* board the parameter is destroyed on return and takes its piece along.
BoardSetPiece ==
    \E pos \in BoardPositions, piece \in ClientPieces \cup { NoPiece } :
        /\ piece # NoPiece => Owned(piece)
        /\ \E D \in Delete(State, IF IsValid(pos) THEN squares[pos] ELSE piece) :
              /\ squares' = SetPiece(squares, pos, piece)
              /\ pieces' = D.pieces
              /\ freed' = D.freed
        /\ last' = [ op |-> "setPiece", ret |-> piece, from |-> pos, to |-> pos ]
        /\ BoardFrame

\* board.movePiece(from, to): the assignment deletes what the slot `to`
\* owned; a unique_ptr moved onto itself keeps its piece
BoardMovePiece ==
    \E from \in BoardPositions, to \in BoardPositions :
        /\ \E D \in Delete(State, IF IsValid(from) /\ IsValid(to) /\ from # to
                                   THEN squares[to] ELSE NoPiece) :
              /\ squares' = MovePiece(squares, from, to)
              /\ pieces' = D.pieces
              /\ freed' = D.freed
        /\ last' = [ op |-> "movePiece", ret |-> NoPiece, from |-> from, to |-> to ]
        /\ BoardFrame

NextBoard == BoardGetPiece \/ BoardSetPiece \/ BoardMovePiece

SpecBoard == InitBoard /\ [][NextBoard]_vars

(***************************************************************************)
(* One client of the parking lot: parkVehicle, unparkVehicle and           *)
(* getAvailableSpots on the lot of the tests and on a lot of two levels.   *)
(* `last` records the call, its result, the plate and what                 *)
(* getAvailableSpots would have returned before the call.                  *)
(***************************************************************************)
\* the constructor arguments: ParkingLot(1, 1, 10) and ParkingLot(2, 1, 8)
LotShapes == { << 1, 1, 10 >>, << 2, 1, 8 >> }

\* the vehicles of the client
Fleet == { Motorcycle("BIKE"), Car("CAR0"), Car("CAR1"), Bus("BUS0") }

\* the plates asked for: the fleet's and one no vehicle carries
Plates == { vehicle.licensePlate : vehicle \in Fleet } \cup { "XYZ789" }

InitParking ==
    /\ GameAside
    /\ CoordinatesIdle
    /\ VendingIdle
    /\ \E shape \in LotShapes :
         /\ levels = ParkingLot(shape[1], shape[2], shape[3]).levels
         /\ vehicleLocation = ParkingLot(shape[1], shape[2], shape[3]).vehicleLocation
    /\ waiting = {}
    /\ last = [ op |-> "ParkingLot", ret |-> TRUE, exit |-> NoVehicle, before |-> 0 ]

\* parkingLot.parkVehicle(&vehicle), for a vehicle the lot does not record
\* as parked
ParkVehicleCall ==
    \E vehicle \in Fleet :
        /\ vehicle.licensePlate \notin DOMAIN vehicleLocation
        /\ LET r == ParkVehicle(Lot, vehicle)
           IN  /\ InstallLot(r.lot)
               /\ last' = [ op |-> "parkVehicle", ret |-> r.ret,
                            exit |-> vehicle.licensePlate,
                            before |-> GetAvailableSpots(Lot) ]
        /\ UNCHANGED << game, coordinates, vending, waiting >>

\* parkingLot.unparkVehicle(plate)
UnparkVehicleCall ==
    \E plate \in Plates :
        LET r == UnparkVehicle(Lot, plate)
        IN  /\ InstallLot(r.lot)
            /\ last' = [ op |-> "unparkVehicle", ret |-> r.ret, exit |-> plate,
                         before |-> GetAvailableSpots(Lot) ]
            /\ UNCHANGED << game, coordinates, vending, waiting >>

NextParking == ParkVehicleCall \/ UnparkVehicleCall

SpecParking == InitParking /\ [][NextParking]_vars

(***************************************************************************)
(* The vending machine (vending-machine/implementation.cpp), driven by one *)
(* caller.  Money is counted in cents; the prices and payments used are    *)
(* multiples of a quarter, which the code's doubles hold exactly.          *)
(* machine is the VendingMachine object: state, selectedProductId,         *)
(* currentPayment, the catalogue (product id -> price) and the inventory's *)
(* stockLevels.  locks tells which std::mutex the caller holds.  pc is the *)
(* caller's position: idle, waiting at a lock() or blocked for good.       *)
(***************************************************************************)
IDLE == "IDLE"
SELECTING == "SELECTING"
PAYING == "PAYING"
DISPENSING == "DISPENSING"

\* currentPayment == nullptr
NoPayment == [ amount |-> 0, total |-> 0, live |-> FALSE ]

\* Payment(amount) with coins and bills worth `total` added
Payment(amount, total) == [ amount |-> amount, total |-> total, live |-> TRUE ]

\* Payment::getTotalAmount
GetTotalAmount(payment) == payment.total

\* isCompleted of Payment::processPayment: getTotalAmount() >= amount
PaymentCompleted(payment) == GetTotalAmount(payment) >= payment.amount

\* the products of the tests: Product("Lays Chips", 1.50, "Snacks") and
\* Product("Coca Cola", 1.00, "Beverages")
ProductPrices == [ CHIPS |-> 150, SODA |-> 100 ]
ProductIds == DOMAIN ProductPrices

\* Inventory::getStockLevel
GetStockLevel(M, productId) ==
    IF productId \in DOMAIN M.stockLevels THEN M.stockLevels[productId] ELSE 0

\* Inventory::updateStock: stockLevels[productId] += quantity
UpdateStock(M, productId, quantity) ==
    [M EXCEPT !.stockLevels =
        [ id \in DOMAIN @ \cup { productId } |->
            IF id = productId THEN GetStockLevel(M, productId) + quantity
            ELSE @[id] ]]

\* VendingMachine::addProduct
AddProduct(M, productId, quantity) ==
    LET A == [M EXCEPT !.catalog =
                 [ id \in DOMAIN @ \cup { productId } |-> ProductPrices[id] ]]
    IN  UpdateStock(A, productId, quantity)

\* VendingMachine::selectProduct
SelectProduct(M, productId) ==
    IF M.state # IDLE THEN M
    ELSE IF productId \notin DOMAIN M.catalog THEN M
    ELSE IF GetStockLevel(M, productId) <= 0 THEN M
    ELSE [M EXCEPT !.selectedProductId = productId, !.state = SELECTING]

\* VendingMachine::cancelTransaction
CancelTransaction(M) ==
    [M EXCEPT !.currentPayment = NoPayment, !.state = IDLE,
              !.selectedProductId = ""]

\* the most a product's stock is raised to
MaxStock == 2

Quantities == 0 .. MaxStock

\* the payments offered: Payment(amount) for 1.00, 1.50 and 2.00 with
\* quarters worth 1.00, 1.50 or 2.00
Payments ==
    { Payment(amount, total) : amount \in { 100, 150, 200 },
                               total \in { 100, 150, 200 } }

Idle == [ at |-> "idle", product |-> "", stockBefore |-> 0, paid |-> FALSE ]
Free == [ machineMutex |-> FALSE, paymentMutex |-> FALSE ]

\* VendingMachine::VendingMachine
InitVending ==
    /\ GameAside
    /\ CoordinatesIdle
    /\ LotIdle
    /\ machine = [ state |-> IDLE, selectedProductId |-> "",
                   currentPayment |-> NoPayment, catalog |-> << >>,
                   stockLevels |-> << >> ]
    /\ locks = Free
    /\ pc = Idle
    /\ last = [ op |-> "getInstance", ret |-> FALSE, exit |-> "returned" ]

VendingFrame == UNCHANGED << game, coordinates, lot >>

\* product.updateQuantity(quantity); machine->addProduct(product)
AddProductCall ==
    /\ pc.at = "idle"
    /\ \E productId \in ProductIds, quantity \in Quantities :
         /\ GetStockLevel(machine, productId) + quantity <= MaxStock
         /\ machine' = AddProduct(machine, productId, quantity)
    /\ last' = [ op |-> "addProduct", ret |-> TRUE, exit |-> "returned" ]
    /\ UNCHANGED << locks, pc >>
    /\ VendingFrame

\* machine->selectProduct(productId): last.ret tells whether the product was
\* selected
SelectProductCall ==
    /\ pc.at = "idle"
    /\ \E productId \in ProductIds \cup { "INVALID_ID" } :
         /\ machine' = SelectProduct(machine, productId)
         /\ last' = [ op |-> "selectProduct",
                      ret |-> machine.state = IDLE /\ machine'.state = SELECTING,
                      exit |-> "returned" ]
    /\ UNCHANGED << locks, pc >>
    /\ VendingFrame

\* machine->cancelTransaction()
CancelTransactionCall ==
    /\ pc.at = "idle"
    /\ machine' = CancelTransaction(machine)
    /\ last' = [ op |-> "cancelTransaction", ret |-> TRUE, exit |-> "returned" ]
    /\ UNCHANGED << locks, pc >>
    /\ VendingFrame

\* what processPayment reports when it returns: last.ret tells whether the
\* call found a selected product and a payment of at least its price
Returned(call) ==
    [ op |-> "processPayment", ret |-> call.paid, exit |-> "returned",
      product |-> call.product, stockBefore |-> call.stockBefore ]

\* machine->processPayment(payment) from lock_guard to its early return or,
\* past the three tests, to currentPayment->processPayment(), which locks
\* paymentMutex and calls getTotalAmount(), whose first line locks
\* paymentMutex again
ProcessPaymentCall ==
    /\ pc.at = "idle"
    /\ \E payment \in Payments :
         IF \/ machine.state # SELECTING
            \/ machine.selectedProductId \notin DOMAIN machine.catalog
            \/ GetTotalAmount(payment) < machine.catalog[machine.selectedProductId]
         THEN /\ last' = Returned(Idle)
              /\ UNCHANGED << machine, locks, pc >>
         ELSE /\ machine' = [machine EXCEPT !.currentPayment = payment,
                                            !.state = PAYING]
              /\ locks' = [ machineMutex |-> TRUE, paymentMutex |-> TRUE ]
              /\ pc' = [ at |-> "Payment::processPayment",
                         product |-> machine.selectedProductId,
                         stockBefore |-> GetStockLevel(machine, machine.selectedProductId),
                         paid |-> TRUE ]
              /\ UNCHANGED last
    /\ VendingFrame

\* lock() on a std::mutex the calling thread already owns is undefined: on
\* the usual build the thread waits for itself for ever
RelockBlocks ==
    /\ pc.at \in { "Payment::processPayment", "dispenseProduct", "calculateChange" }
    /\ pc' = [pc EXCEPT !.at = "blocked"]
    /\ UNCHANGED << machine, locks, last >>
    /\ VendingFrame

\* ... on a build whose lock() does not wait (a single-threaded runtime),
\* Payment::processPayment goes on: isCompleted is computed; if it is false
\* processPayment returns, else state = DISPENSING and dispenseProduct()
\* locks machineMutex again
PaymentRelockProceeds ==
    /\ pc.at = "Payment::processPayment"
    /\ IF PaymentCompleted(machine.currentPayment)
       THEN /\ machine' = [machine EXCEPT !.state = DISPENSING]
            /\ locks' = [locks EXCEPT !.paymentMutex = FALSE]
            /\ pc' = [pc EXCEPT !.at = "dispenseProduct"]
            /\ UNCHANGED last
       ELSE /\ locks' = Free
            /\ pc' = Idle
            /\ last' = Returned(pc)
            /\ UNCHANGED machine
    /\ VendingFrame

\* ... dispenseProduct goes on: the stock is lowered and calculateChange
\* locks paymentMutex and calls getTotalAmount(), which locks it again
DispenseRelockProceeds ==
    /\ pc.at = "dispenseProduct"
    /\ machine' = UpdateStock(machine, machine.selectedProductId, -1)
    /\ locks' = [locks EXCEPT !.paymentMutex = TRUE]
    /\ pc' = [pc EXCEPT !.at = "calculateChange"]
    /\ UNCHANGED last
    /\ VendingFrame

\* ... calculateChange goes on: the payment is deleted, the machine is IDLE,
\* the selection is cleared, dispenseProduct and processPayment return
ChangeRelockProceeds ==
    /\ pc.at = "calculateChange"
    /\ machine' = [machine EXCEPT !.currentPayment = NoPayment, !.state = IDLE,
                                  !.selectedProductId = ""]
    /\ locks' = Free
    /\ pc' = Idle
    /\ last' = Returned(pc)
    /\ VendingFrame

NextVending ==
    \/ AddProductCall \/ SelectProductCall \/ CancelTransactionCall
    \/ ProcessPaymentCall
    \/ RelockBlocks
    \/ PaymentRelockProceeds \/ DispenseRelockProceeds \/ ChangeRelockProceeds

SpecVending == InitVending /\ [][NextVending]_vars

(***************************************************************************)
(* Reference notions the properties are stated with.                       *)
(***************************************************************************)
\* the squares the properties quantify over: the whole board and one
\* position beyond each edge
ProbeSquares ==
    Squares \cup { << 0, BoardSize >>, << BoardSize, 0 >>, << -1, 0 >>, << 0, -1 >> }

\* a live piece stands on pos
Occupied(S, pos) ==
    GetPiece(S.squares, pos) # NoPiece /\ GetPiece(S.squares, pos) \notin S.freed

\* the colour a piece was created with (no operation changes it)
TrueColor(id) == InitPieces[id].color

\* the pseudo-legal destinations of piece id taken from the square pos it
\* stands on
PseudoLegalAt(S, id, pos) ==
    GetValidMoves(S.squares, [S.pieces EXCEPT ![id].position = pos], id)

KingSquares(S, color) ==
    { pos \in Squares : /\ Occupied(S, pos)
                        /\ S.pieces[S.squares[pos]].type = KING
                        /\ TrueColor(S.squares[pos]) = color }

\* some opposing piece's pseudo-legal destination set contains the square of
\* color's king
Attacked(S, color) ==
    \E k \in KingSquares(S, color), pos \in Squares :
        /\ Occupied(S, pos)
        /\ TrueColor(S.squares[pos]) # color
        /\ k \in PseudoLegalAt(S, S.squares[pos], pos)

\* the board after the piece on pos went to dest
AfterTrial(S, pos, dest) == [S EXCEPT !.squares = MovePiece(S.squares, pos, dest)]

\* the pseudo-legal destinations `moves` of the piece on pos that do not
\* leave its own king attacked
KingSafe(S, pos, moves) ==
    { dest \in moves :
        ~Attacked(AfterTrial(S, pos, dest), TrueColor(S.squares[pos])) }

\* the legal destinations of the piece on pos
LegalDestinations(S, pos) ==
    KingSafe(S, pos, PseudoLegalAt(S, S.squares[pos], pos))

\* some piece of the colour has a legal move
HasLegalMove(S, color) ==
    \E pos \in Squares :
        /\ Occupied(S, pos)
        /\ TrueColor(S.squares[pos]) = color
        /\ LegalDestinations(S, pos) # {}

\* the index of the n-th space of a FEN string
RECURSIVE NthSpace(_, _, _)
NthSpace(fen, n, i) ==
    IF i > Len(fen) THEN Len(fen)
    ELSE IF fen[i] = 32 THEN (IF n = 1 THEN i ELSE NthSpace(fen, n - 1, i + 1))
    ELSE NthSpace(fen, n, i + 1)

\* the position a FEN string names: placement, side to move, castling
\* rights and en-passant target, without the two counters
PositionOf(fen) == SubSeq(fen, 1, NthSpace(fen, 4, 1))

\* how many times the moves recorded in ph produced the position
Occurrences(ph, position) ==
    SumOver(ph, { key \in DOMAIN ph : PositionOf(key) = position })

\* the moves recorded in ph produced some position three times
ThriceProduced(ph) ==
    LET positionOf == [ key \in DOMAIN ph |-> PositionOf(key) ]
    IN  \E key \in DOMAIN ph :
           SumOver(ph, { other \in DOMAIN ph : positionOf[other] = positionOf[key] }) >= 3

\* the number of moves at the end of the history that neither captured nor
\* moved a pawn
RECURSIVE QuietPlies(_, _)
QuietPlies(S, n) ==
    IF n = 0 THEN 0
    ELSE LET move == S.moveHistory[n]
         IN  IF move.capturedPiece # NoPiece \/ S.pieces[move.piece].type = PAWN
             THEN 0
             ELSE 1 + QuietPlies(S, n - 1)

\* the live pieces on the board other than the kings
OtherPieces(S) ==
    { S.squares[pos] : pos \in { p \in Squares : Occupied(S, p) /\ S.pieces[S.squares[p]].type # KING } }

\* bare kings, or one bishop or knight beside the two kings
InsufficientMaterial(S) ==
    /\ KingSquares(S, WHITE) # {} /\ KingSquares(S, BLACK) # {}
    /\ \/ OtherPieces(S) = {}
       \/ \E id \in PieceIds : /\ OtherPieces(S) = { id }
                                /\ S.pieces[id].type \in { BISHOP, KNIGHT }

\* number of accepted moves so far, and whether none of them was undone
Accepted == TotalCount(positionHistory)
NoUndoYet == Accepted = Len(moveHistory)

\* the last call was a makeMove that returned true / false
LastAccepted == last.op = "makeMove" /\ last.ret /\ ~aborted
LastRejected == last.op = "makeMove" /\ ~last.ret /\ ~aborted

(***************************************************************************)
(* C1..C10.                                                                *)
(***************************************************************************)

\* C1: makeMove never accepts a move that leaves the mover's own king
\* attacked: for every (from, to), if the call is accepted then in the state
\* it leaves the king of the side that moved is on no opposing piece's
\* pseudo-legal destination set.
C1_NoMoveIntoCheck ==
    \A from \in InputSquares, to \in InputSquares :
        \A o \in MakeMove(State, from, to) :
            (o.ret /\ ~o.st.aborted) => ~Attacked(o.st, currentPlayer)

\* C2: a rejected makeMove changes nothing: the board, every hasMoved flag,
\* the current player, the history, both counters and the repetition counts
\* are what they were before the call.
C2_RejectedChangesNothing ==
    [][ (last'.op = "makeMove" /\ ~last'.ret /\ ~aborted')
        => UNCHANGED << squares, pieces, freed, currentPlayer, moveHistory,
                        halfMoveClock, fullMoveNumber, positionHistory >> ]_vars

\* C2 witness: a call was refused for its destination in a game with moves
\* on the history.
C2_Witness == LastRejected /\ last.exit = "cannotMove" /\ moveHistory # << >>

\* C3: makeMove(from, to) returns failure whenever `from` holds no piece, in
\* every reachable state.
C3_NoPieceAtSource ==
    \A from \in ProbeSquares, to \in InputSquares :
        GetPiece(squares, from) = NoPiece
        => \A o \in MakeMove(State, from, to) : ~o.ret

\* C3 witness: a call on an empty source square was refused, after moves
\* were played.
C3_Witness == LastRejected /\ last.exit = "noPiece" /\ moveHistory # << >>

\* C4: makeMove(from, to) returns failure whenever the piece on `from` is not
\* of the current player's colour (from the initial position, a Black piece).
C4_WrongTurn ==
    \A from \in ProbeSquares, to \in InputSquares :
        (Occupied(State, from) /\ TrueColor(GetPiece(squares, from)) # currentPlayer)
        => \A o \in MakeMove(State, from, to) : ~o.ret

\* C4 witness: in the initial position a Black piece was submitted and the
\* call was refused.
C4_Witness ==
    /\ LastRejected /\ last.exit = "wrongTurn"
    /\ Accepted = 0 /\ currentPlayer = WHITE

\* C5: makeMove(from, to) is accepted only if `to` is a pseudo-legal
\* destination of the piece standing on `from`, computed from the square
\* `from` on the board as it is before the move.
C5_OnlyPseudoLegal ==
    [][ (last'.op = "makeMove" /\ last'.ret /\ ~aborted')
        => LET move == Back(moveHistory')
           IN  move.to \in PseudoLegalAt(State, move.piece, move.from) ]_vars

\* C6: White moves first, every accepted makeMove flips the current player,
\* every rejected one leaves it, so after n accepted moves and no undo the
\* player to move is White iff n is even.
C6_Alternation ==
    /\ currentPlayer = WHITE
    /\ [][ (last'.op = "makeMove" /\ ~aborted')
           => IF last'.ret
              THEN currentPlayer' # currentPlayer
              ELSE currentPlayer' = currentPlayer ]_vars
    /\ [](NoUndoYet => (currentPlayer = WHITE <=> Accepted % 2 = 0))

\* C6 witness: three moves were accepted, none undone, and Black is to move.
C6_Witness == LastAccepted /\ NoUndoYet /\ Accepted = 3 /\ currentPlayer = BLACK

\* C7: after an accepted move, undoMove() and the identical move again
\* succeed, and getFEN() then returns the string it returned after the first
\* execution.
C7_UndoRedoSameNotation ==
    LastAccepted
    => LET move == Back(moveHistory)
       IN  \A U \in UndoMove(State) :
              /\ ~U.aborted
              /\ \A o \in MakeMove(U, move.from, move.to) :
                     o.ret /\ GetFEN(o.st) = GetFEN(State)

\* C8: undoMove() of an accepted move puts the mover back on `from`, leaves
\* on `to` the piece that was captured there (or nothing), leaves every other
\* square alone, and gives the turn to the side that made the undone move.
C8_UndoRestoresBoard ==
    [][ (last'.op = "undoMove" /\ moveHistory # << >>)
        => LET move == Back(moveHistory)
           IN  /\ ~aborted'
               /\ squares'[move.from] = move.piece
               /\ move.piece \notin freed'
               /\ squares'[move.to] = move.capturedPiece
               /\ move.capturedPiece # NoPiece => move.capturedPiece \notin freed'
               /\ \A pos \in Squares \ { move.from, move.to } :
                      squares'[pos] = squares[pos]
               /\ currentPlayer' = TrueColor(move.piece) ]_vars

\* C9: undoMove() gives the mover's hasMoved flag the value it had right
\* before the undone move.
C9_UndoRestoresHasMoved ==
    \A from \in InputSquares, to \in InputSquares :
        \A o \in MakeMove(State, from, to) :
            (o.ret /\ ~o.st.aborted)
            => \A U \in UndoMove(o.st) :
                   ~U.aborted
                   => U.pieces[GetPiece(squares, from)].hasMoved
                      = pieces[GetPiece(squares, from)].hasMoved

\* C10: after makeMove followed by undoMove the half-move clock and the
\* full-move number are what they were before the makeMove.
C10_UndoRestoresCounters ==
    \A from \in InputSquares, to \in InputSquares :
        \A o \in MakeMove(State, from, to) :
            (o.ret /\ ~o.st.aborted)
            => \A U \in UndoMove(o.st) :
                   ~U.aborted
                   => /\ U.halfMoveClock = halfMoveClock
                      /\ U.fullMoveNumber = fullMoveNumber

(***************************************************************************)
(* C11..C20.                                                               *)
(***************************************************************************)

\* C11: the repetition counts follow the history across undo: each move
\* still in the history accounts for exactly one count, so the counts add up
\* to the length of the history, no count exceeds it, and isDraw() cannot
\* become true through repetition while fewer than three moves are in the
\* history.
C11_CountsFollowHistory ==
    ~aborted
    => /\ TotalCount(positionHistory) = Len(moveHistory)
       /\ \A key \in DOMAIN positionHistory :
             positionHistory[key] <= Len(moveHistory)
       /\ (halfMoveClock < 50 /\ IsDraw(State)) => Len(moveHistory) >= 3

\* C12: undoMove() on an empty history is a silent no-op: the call returns
\* normally and the board, the pieces, the current player, the history, the
\* counters, the castling and en-passant members and the repetition counts
\* are what they were.
C12_UndoOnEmptyIsNoOp ==
    [][ (last'.op = "undoMove" /\ moveHistory = << >>)
        => /\ ~aborted' /\ last'.exit = "done"
           /\ UNCHANGED << squares, pieces, freed, currentPlayer, moveHistory,
                           whiteKingMoved, blackKingMoved, whiteRookMoved,
                           blackRookMoved, enPassantTarget, halfMoveClock,
                           fullMoveNumber, positionHistory >> ]_vars

\* C12 witness: undoMove() has just returned in a game in which no move was
\* ever accepted, so it was called on an empty history.
C12_Witness ==
    /\ last.op = "undoMove" /\ last.exit = "done" /\ ~aborted
    /\ moveHistory = << >> /\ Accepted = 0

\* C13: isCheckmate(color) is true iff color's king is attacked and no
\* piece of that colour has a legal move; a side in check that has an
\* escaping move is never reported checkmated.
C13_CheckmateIffNoEscape ==
    (~aborted /\ ~DanglingOnBoard(State))
    => \A color \in Color :
          IsCheckmate(State, color)
            = { Attacked(State, color) /\ ~HasLegalMove(State, color) }

C15_LegalMovesKingSafe ==
    (~aborted /\ ~DanglingOnBoard(State))
    => \A pos \in Squares :
          Occupied(State, pos)
          => GameGetValidMoves(State, pos)
               = { KingSafe(State, pos,
                            GetValidMoves(squares, pieces, squares[pos])) }

\* C16: isCheck(color) is true iff some piece of the other colour has the
\* square of color's king among its pseudo-legal destinations on the current
\* board.
C16_CheckIffKingAttacked ==
    (~aborted /\ ~DanglingOnBoard(State))
    => \A color \in Color : IsCheck(State, color) = { Attacked(State, color) }

\* C17: isCheck(color) on a board without a king of that colour does not
\* return normally: it has no value, true or false, to return.
C17_NoKingNoAnswer ==
    \A color \in Color :
        KingSquares(State, color) = {} => IsCheck(State, color) = {}

\* C18: once the moves of the game have produced the same position
\* (placement, side to move, castling rights, en-passant target) three
\* times, isDraw() is true, whatever the two counters were at those times.
C18_ThreefoldIsDraw ==
    (~aborted /\ Occurrences(positionHistory, PositionOf(GetFEN(State))) >= 3)
    => IsDraw(State)

\* C19: isDraw() is false while fewer than 100 plies in a row were accepted
\* without a capture or a pawn move, and true from the 100th on, unless a
\* position was produced three times or the material is insufficient.
C19_FiftyMovesAtHundredPlies ==
    \/ IsDraw(State) <=> QuietPlies(State, Len(moveHistory)) >= 100
    \/ aborted
    \/ InsufficientMaterial(State)
    \/ ThriceProduced(positionHistory)

LastCaptured == Occupied(State, Back(moveHistory').to)
LastMovedPawn == pieces[Back(moveHistory').piece].type = PAWN

\* C21: the half-move clock starts at 0; an accepted move sets it to 0 if it
\* captured or moved a pawn and otherwise to one more than it was; a
\* rejected move leaves it.
C21_HalfMoveClock ==
    /\ halfMoveClock = 0
    /\ [][ (last'.op = "makeMove" /\ ~aborted' /\ ~DanglingOnBoard(State))
           => halfMoveClock' =
                IF ~last'.ret THEN halfMoveClock
                ELSE IF LastCaptured \/ LastMovedPawn THEN 0
                ELSE halfMoveClock + 1 ]_vars

\* C21 witness: a move that neither captured nor moved a pawn was accepted
\* right after a pawn move, and the clock stands at 1.
C21_Witness ==
    /\ LastAccepted /\ NoUndoYet /\ Len(moveHistory) >= 2
    /\ pieces[Back(moveHistory).piece].type # PAWN
    /\ Back(moveHistory).capturedPiece = NoPiece
    /\ halfMoveClock = 1

\* the moves of the history made by Black pieces
BlackMoves == { i \in DOMAIN moveHistory : TrueColor(moveHistory[i].piece) = BLACK }

\* C22: the full-move number starts at 1; an accepted move of Black raises
\* it by one, an accepted move of White and a rejected move leave it; with
\* no undo it is 1 plus the number of accepted Black moves.
C22_FullMoveNumber ==
    /\ fullMoveNumber = 1
    /\ [][ (last'.op = "makeMove" /\ ~aborted')
           => fullMoveNumber' =
                IF last'.ret /\ currentPlayer = BLACK
                THEN fullMoveNumber + 1 ELSE fullMoveNumber ]_vars
    /\ [](NoUndoYet => fullMoveNumber = 1 + Cardinality(BlackMoves))

\* C22 witness: White, Black and White again have moved, nothing was
\* undone, and the full-move number is 2.
C22_Witness ==
    LastAccepted /\ NoUndoYet /\ Accepted = 3 /\ fullMoveNumber = 2

\* the history is exactly the given moves, made in order and none undone
Played(moves) ==
    /\ ~aborted /\ NoUndoYet /\ Len(moveHistory) = Len(moves)
    /\ \A i \in DOMAIN moves :
          moveHistory[i].from = moves[i][1] /\ moveHistory[i].to = moves[i][2]

FoolsMate ==
    << << Sq("f", 2), Sq("f", 4) >>, << Sq("e", 7), Sq("e", 6) >>,
       << Sq("g", 2), Sq("g", 4) >>, << Sq("d", 8), Sq("h", 4) >> >>

\* C23: after f2f4, e7e6, g2g4, d8h4 from the initial position
\* isCheckmate(White) is true and isCheckmate(Black) is false.
C23_FoolsMateRecognised ==
    Played(FoolsMate)
    => IsCheckmate(State, WHITE) = { TRUE } /\ IsCheckmate(State, BLACK) = { FALSE }

Opening ==
    << << Sq("e", 2), Sq("e", 4) >>, << Sq("e", 7), Sq("e", 5) >>,
       << Sq("g", 1), Sq("f", 3) >>, << Sq("b", 8), Sq("c", 6) >> >>

\* C24: from the initial position e2e4, e7e5, g1f3, b8c6, submitted in this
\* order, are each accepted: whenever the first n of them have been played,
\* makeMove returns true for the next one.
C24_OpeningAccepted ==
    \A n \in 0 .. Len(Opening) - 1 :
        Played(SubSeq(Opening, 1, n))
        => \A o \in MakeMove(State, Opening[n + 1][1], Opening[n + 1][2]) : o.ret

\* C24 witness: the four moves have been played, the last one just now.
C24_Witness == Played(Opening) /\ LastAccepted

\* a live pawn stands on pos
PawnOn(S, pos) == Occupied(S, pos) /\ S.pieces[S.squares[pos]].type = PAWN

\* the rank the pawns of a colour start on, as a row
StartRow(color) == IF color = WHITE THEN BoardSize - 2 ELSE 1

\* no live piece of the other colour stands diagonally ahead of the pawn on pos
NoCaptureAvailable(S, pos) ==
    LET color == TrueColor(S.squares[pos])
    IN  \A dc \in { -1, 1 } :
           LET target == << Row(pos) + Direction(color), Col(pos) + dc >>
           IN  ~(IsValid(target) /\ Occupied(S, target)
                 /\ TrueColor(S.squares[target]) # color)

\* the one and two squares ahead of the pawn on pos are empty
TwoAheadEmpty(S, pos) ==
    LET color == TrueColor(S.squares[pos])
    IN  \A n \in 1 .. 2 :
           GetPiece(S.squares, << Row(pos) + n * Direction(color), Col(pos) >>) = NoPiece

\* the piece is the mover of a move in the history
HasMovedInHistory(S, id) == \E i \in DOMAIN S.moveHistory : S.moveHistory[i].piece = id

\* C25: getValidMoves(pos) has exactly 2 destinations for a pawn on its
\* starting rank with both squares ahead empty and no capture available,
\* and at most 1 for a pawn that has made an accepted move and has no
\* capture available.
C25_PawnMoveCounts ==
    (~aborted /\ ~DanglingOnBoard(State))
    => \A pos \in Squares :
          (PawnOn(State, pos) /\ NoCaptureAvailable(State, pos))
          => \A moves \in GameGetValidMoves(State, pos) :
                /\ (Row(pos) = StartRow(TrueColor(squares[pos])) /\ TwoAheadEmpty(State, pos))
                   => Cardinality(moves) = 2
                /\ HasMovedInHistory(State, squares[pos])
                   => Cardinality(moves) <= 1

\* the n-th (n > 1) of the space-separated fields of a FEN string
Field(fen, n) ==
    SubSeq(fen, NthSpace(fen, n - 1, 1) + 1, NthSpace(fen, n, 1) - 1)

Dash == << 45 >>

\* the last move of the history was a pawn's double step
DoubleStep(move) ==
    /\ InitPieces[move.piece].type = PAWN
    /\ Col(move.from) = Col(move.to)
    /\ Row(move.to) - Row(move.from) \in { -2, 2 }

\* the square between from and to of a double step
Skipped(move) == << (Row(move.from) + Row(move.to)) \div 2, Col(move.from) >>

\* C26: the en-passant field of getFEN() is the square the pawn skipped
\* right after an accepted pawn double step, and `-` in the initial
\* position and after any other accepted move.
C26_EnPassantField ==
    (~aborted /\ NoUndoYet)
    => Field(GetFEN(State), 4) =
         IF moveHistory # << >> /\ DoubleStep(Back(moveHistory))
         THEN GetNotation(Skipped(Back(moveHistory)))
         ELSE Dash

\* the piece has made a move of the history
Moved(id) == \E i \in DOMAIN moveHistory : moveHistory[i].piece = id

\* the castling letters (K, Q, k, q) that remain: the king of the colour
\* and the rook of the side have not moved
RightsLeft ==
    (IF ~Moved(HomeOf("e", 1)) /\ ~Moved(HomeOf("h", 1)) THEN << 75 >> ELSE << >>)
    \o (IF ~Moved(HomeOf("e", 1)) /\ ~Moved(HomeOf("a", 1)) THEN << 81 >> ELSE << >>)
    \o (IF ~Moved(HomeOf("e", 8)) /\ ~Moved(HomeOf("h", 8)) THEN << 107 >> ELSE << >>)
    \o (IF ~Moved(HomeOf("e", 8)) /\ ~Moved(HomeOf("a", 8)) THEN << 113 >> ELSE << >>)

\* C27: the castling field of getFEN() is `KQkq` initially, loses both
\* letters of a colour once its king has made an accepted move and the
\* letter of a side once that rook has left home, and is `-` when no right
\* remains.
C27_CastlingField ==
    (~aborted /\ NoUndoYet)
    => Field(GetFEN(State), 3) = IF RightsLeft = << >> THEN Dash ELSE RightsLeft

\* the row of the last rank of a colour: rank 8 for White, rank 1 for Black
LastRow(color) == IF color = WHITE THEN 0 ELSE BoardSize - 1

Terminal(S) ==
    \/ ~HasLegalMove(S, S.currentPlayer)
    \/ IsDraw(S)

\* C29: checkmate, stalemate and draw are terminal: when the position after
\* an accepted move is checkmate or stalemate for the side to move, or
\* isDraw() is true, no makeMove call made from there is accepted, whatever
\* its squares.
C29_TerminalStatesAcceptNothing ==
    (LastAccepted /\ Terminal(State))
    => \A from \in Squares, to \in Squares :
          \A o \in MakeMove(State, from, to) : ~o.ret

\* what getFEN returns wholly before or wholly after the commit of the
\* makeMove that holds the lock
BeforeOrAfter(S, mutex) ==
    { mutex.before }
    \cup (IF S.moveHistory = << >> THEN {} ELSE { GetFEN(UpdateGameState(S)) })

\* C30: the makeMove/query surface is serialised by one lock: no undoMove
\* runs while a makeMove is in progress, and a getFEN answered while a
\* makeMove is in progress returns the notation of the state wholly before
\* that makeMove or wholly after its commit.
C30_SerialisedByOneLock ==
    [][ /\ (last'.op = "undoMove" /\ moveHistory' # moveHistory)
             => ~stateMutex.held
        /\ (last'.op = "getFEN" /\ stateMutex' = stateMutex /\ stateMutex.held)
             => last'.ret \in BeforeOrAfter(State, stateMutex) ]_vars

\* the notations a1 .. h8
SquareNames == { << file, rank >> : file \in 97 .. 104, rank \in 49 .. 56 }

\* C31: coordinate notation round-trips: for every Position with row and
\* column in 0..7 the string getNotation produces is one of a1..h8, and
\* constructing a Position from it succeeds and gives the original.
C31_NotationRoundTrip ==
    (last.op = "getNotation" /\ IsValid(coordinate))
    => /\ text \in SquareNames
       /\ PositionFromNotation(text) = [ thrown |-> FALSE, pos |-> coordinate ]

\* h8 was written for row 0, column 7
C31_Witness ==
    /\ last.op = "getNotation"
    /\ coordinate = << 0, 7 >>
    /\ text = << 104, 56 >>

\* C32: construction from text fails for every string that is not one
\* letter a-h followed by one digit 1-8: whenever a Position was
\* constructed from a string, the string is one of a1..h8.
C32_InvalidNotationRejected ==
    (last.op = "fromNotation" /\ last.ret) => text \in SquareNames

\* C33: when as many distinct cars as the lot of one level and one row has
\* spots are parked by concurrent parkVehicle calls, then after all calls
\* returned getAvailableSpots() is 0, whatever the order in which the calls
\* took the lock.
C33_ConcurrentParkingFillsLot ==
    (waiting = {} /\ last.op = "getAvailableSpots") => last.ret = 0

\* C34: no move record outlives the pieces it names: in every reachable
\* state neither the mover nor the captured piece of any Move in the
\* history is a destroyed Piece object.
C34_NoRecordOutlivesItsPieces ==
    ~aborted
    => \A i \in DOMAIN moveHistory :
          /\ moveHistory[i].piece \notin freed
          /\ moveHistory[i].capturedPiece \notin freed

\* C35: piece/board agreement: after any sequence of makeMove and undoMove
\* calls every piece stored in a board square records that square as its own
\* position.
C35_PieceBoardAgreement ==
    ~aborted
    => \A pos \in Squares :
          Occupied(State, pos) => pieces[squares[pos]].position = pos

\* the reference set of a pawn's pseudo-legal moves, from the square the
\* pawn records as its own
PawnReference(S, id) ==
    LET me == S.pieces[id]
        direction == Direction(me.color)
        forward == << Row(me.position) + direction, Col(me.position) >>
        doubleForward == << Row(me.position) + 2 * direction, Col(me.position) >>
        Empty(pos) == IsValid(pos) /\ S.squares[pos] = NoPiece
        Enemy(pos) ==
            /\ IsValid(pos) /\ S.squares[pos] # NoPiece
            /\ S.pieces[S.squares[pos]].color # me.color
    IN  { pos \in { forward } : Empty(pos) }
        \cup { pos \in { doubleForward } :
                 /\ ~me.hasMoved /\ Row(me.position) = StartRow(me.color)
                 /\ Empty(forward) /\ Empty(pos) }
        \cup { pos \in { << Row(forward), Col(forward) - 1 >>,
                          << Row(forward), Col(forward) + 1 >> } : Enemy(pos) }

\* C36: for every board and pawn, Pawn::getValidMoves returns the reference
\* set: one step forward if on the board and empty; two steps only if the
\* pawn has not moved, is on its starting rank and both squares are empty;
\* a forward diagonal only if on the board and held by an enemy piece; no
\* off-board square.
C36_PawnMovesAreReference ==
    (~aborted /\ ~DanglingOnBoard(State))
    => \A pos \in Squares :
          PawnOn(State, pos)
          => SeqToSet(PawnGetValidMoves(squares, pieces, squares[pos]))
               = PawnReference(State, squares[pos])

\* C37: Board::movePiece(from, to) with both squares on the board leaves
\* `to` holding the former occupant of `from` (nothing if `from` was empty),
\* leaves `from` empty when the two differ, changes no other square and no
\* living piece's hasMoved flag; with either square off the board it changes
\* nothing.
C37_MovePieceFrame ==
    [][ last'.op = "movePiece"
        => LET from == last'.from
               to == last'.to
           IN  IF IsValid(from) /\ IsValid(to)
               THEN /\ squares'[to] = squares[from]
                    /\ from # to => squares'[from] = NoPiece
                    /\ \A pos \in Squares \ { from, to } : squares'[pos] = squares[pos]
                    /\ \A id \in PieceIds \ freed' :
                          pieces'[id].hasMoved = pieces[id].hasMoved
               ELSE UNCHANGED << squares, pieces, freed >> ]_vars

\* a piece was moved from one square onto another that held a piece
C37_Witness ==
    /\ last.op = "movePiece"
    /\ IsValid(last.from) /\ IsValid(last.to) /\ last.from # last.to
    /\ squares[last.to] # NoPiece
    /\ squares[last.from] = NoPiece
    /\ freed # {}

\* C38: board probing is permissive at the boundary: for every position with
\* row or column outside 0..7 getPiece returns nullptr and setPiece changes
\* no square, and neither ends the program.
C38_OffBoardProbes ==
    [][ ~IsValid(last'.from)
        => /\ last'.op = "getPiece" => last'.ret = NoPiece
           /\ last'.op = "setPiece" => squares' = squares
           /\ ~aborted' ]_vars

\* a piece was handed to setPiece for a position off the board while the
\* board held another
C38_Witness ==
    /\ last.op = "setPiece"
    /\ ~IsValid(last.from)
    /\ last.ret # NoPiece
    /\ \E pos \in Squares : squares[pos] # NoPiece

\* C39: a purchase completes: processPayment, called after selectProduct
\* chose a catalogued product in stock and with a total of at least the
\* price, never waits for a lock its own thread holds, and when it has
\* returned the machine is IDLE, the selection is cleared and the product's
\* stock is one less than before.
C39_PurchaseCompletes ==
    /\ pc.at # "blocked"
    /\ (last.op = "processPayment" /\ last.ret)
       => /\ machine.state = IDLE
          /\ machine.selectedProductId = ""
          /\ GetStockLevel(machine, last.product) = last.stockBefore - 1

\* some spot of the lot holds the vehicle with this plate
Parked(L, plate) ==
    \E n \in DOMAIN L.levels : \E i \in DOMAIN L.levels[n] :
        L.levels[n][i].parkedVehicle = plate

AvailableNow == GetAvailableSpots(Lot)

\* C40: parking round trip: unparkVehicle(plate) called right after
\* parkVehicle accepted the vehicle (motorcycle, car or bus) returns true
\* and getAvailableSpots() is back at its value before the park;
\* unparkVehicle of a plate that no spot holds returns false and changes
\* nothing.
C40_ParkingRoundTrip ==
    [][ /\ ( /\ last.op = "parkVehicle" /\ last.ret
             /\ last'.op = "unparkVehicle" /\ last'.exit = last.exit )
           => (last'.ret /\ AvailableNow' = last.before)
        /\ (last'.op = "unparkVehicle" /\ ~Parked(Lot, last'.exit))
           => (~last'.ret /\ UNCHANGED << levels, vehicleLocation >>) ]_vars

=============================================================================
